---- MODULE Spec2Model ----
(***************************************************************************)
(* SongNote: text -> phrases -> melody -> sung vocal -> accompaniment ->    *)
(* mix.  A verification model of the singing service in docker/coqui-tts    *)
(* and of the arranger in huggingface_space_setup/musical_arrangement.py.   *)
(*                                                                          *)
(* Conventions.  Frequencies are integers in 1/100 Hz.  Samples are         *)
(* integers in 1/1000 of full scale.  Python indices are kept 0-based in    *)
(* the state; a TLA+ sequence s is read at s[i + 1].  Each component has    *)
(* its own specification; a specification leaves the variables of the       *)
(* other components untouched.                                              *)
(***************************************************************************)
EXTENDS Integers, Sequences, FiniteSets, TLC

VARIABLES
    \* ---- MusicalArranger.generate_melody (one call, stepped per syllable)
    gm_text,              \* the lyrics the phrases were analysed from
    gm_phrases,           \* argument phrases
    gm_style,             \* argument style
    gm_mood,              \* argument mood
    gm_pc,                \* "loop" | "done"
    melody,               \* local melody
    phrase_melody,        \* local phrase_melody of the phrase in progress
    current_note_index,   \* local current_note_index (0-based)
    phrase_idx,           \* 0-based index of the phrase in progress
    syllable_count,       \* local syllable_count of the phrase in progress
    gm_prev_index,        \* history: index before the last syllable step
    gm_last,              \* history: what the last step was
    \* ---- the service (app.py + MusicalTTSSinger + TTSEngines)
    rq,                   \* per request: the handler's locals and position
    vocal_mix_level,      \* musical_singer.audio_processor.vocal_mix_level
    music_mix_level,      \* musical_singer.audio_processor.music_mix_level
    env,                  \* what the host offers: import flags, commands
    \* ---- AudioProcessor.mix_vocal_and_accompaniment (one call)
    mx_pc,                \* position in the mixer
    vocal_audio,          \* argument vocal_audio
    accompaniment,        \* argument accompaniment
    vocal_trimmed,        \* local vocal_trimmed
    accompaniment_trimmed,\* local accompaniment_trimmed
    enhanced_vocals,      \* local enhanced_vocals
    filtered_accompaniment,\* local filtered_accompaniment
    mixed,                \* local mixed (1/100000 until normalized)
    mx_failed,            \* history: the sub-steps that raised
    mx_normalized,        \* history: whether line 539 ran
    compress_input,       \* the buffer handed to the compression, after it
    \* ---- AudioProcessor.apply_musical_processing / pitch_shift_to_melody
    vp_entry,             \* the method called
    vp_pc,                \* position in the call
    speech_audio,         \* the caller's buffer, as it was handed in
    vp_melody,            \* argument melody, 1/100 Hz
    vp_phrases,           \* argument phrases
    vp_audio,             \* pitch_shift_to_melody's argument audio
    pitched_audio,        \* local pitched_audio, then singing_audio
    vp_i,                 \* loop index i of pitch_shift_to_melody
    last_shift,           \* history: the last pitch_shift_segment call
    vp_steps,             \* history: the stages that ran
    vp_result,            \* the returned buffer
    \* ---- MusicalArranger.generate_chord_progression (one call)
    cp_pc,                \* position in the call
    cp_melody,            \* argument melody, 1/100 Hz
    cp_style,             \* argument style
    cp_mood,              \* argument mood
    root_freq,            \* local root_freq
    progression,          \* local progression
    chords,               \* local chords
    \* ---- TextAnalyzer: one call of one of its methods
    ta_entry,             \* the method called
    ta_pc,                \* position in the call
    ta_word,              \* argument word
    ta_syllables,         \* what count_syllables returned
    ta_emphasis,          \* what get_word_emphasis returned
    ta_text,              \* argument text
    ta_words,             \* local words
    ta_i,                 \* how many of words the loop has taken
    ta_phrases,           \* local phrases
    ta_current_phrase,    \* local current_phrase
    ta_syllable_count,    \* local syllable_count
    \* ---- the accompaniment: generate_musical_accompaniment and its tracks
    ac_entry,             \* the method called
    ac_impl,              \* whose create_drum_track / create_hihat_sound
    ac_pc,                \* position in the call
    ac_duration,          \* argument duration, in half seconds
    ac_style,             \* argument style
    chord_track,          \* local chord_track: the chord each sample is of
    bass_track,           \* local bass_track: chord * 10 + beat per sample
    drum_track,           \* local drum_track: the hits added to each sample
    ac_beat,              \* loop variable beat of create_drum_track
    ac_hits,              \* history: the hits placed, in order
    ac_hihat,             \* history: the last create_hihat_sound call
    ac_accompaniment,     \* what generate_musical_accompaniment returns
    \* ---- TextAnalyzer.adjust_melody_to_syllables (one call)
    am_impl,              \* whose adjust_melody_to_syllables
    am_pc,                \* position in the call
    am_melody_notes,         \* argument am_melody_notes, 1/100 Hz
    am_syllable_count,    \* argument syllable_count
    extended,             \* local extended
    am_result             \* the returned list

gmVars == <<gm_text, gm_phrases, gm_style, gm_mood, gm_pc, melody,
            phrase_melody, current_note_index, phrase_idx, syllable_count,
            gm_prev_index, gm_last>>

svcVars == <<rq, vocal_mix_level, music_mix_level, env>>

mxVars == <<mx_pc, vocal_audio, accompaniment, vocal_trimmed,
            accompaniment_trimmed, enhanced_vocals, filtered_accompaniment,
            mixed, mx_failed, mx_normalized, compress_input>>

vpVars == <<vp_entry, vp_pc, speech_audio, vp_melody, vp_phrases, vp_audio,
            pitched_audio, vp_i, last_shift, vp_steps, vp_result>>

cpVars == <<cp_pc, cp_melody, cp_style, cp_mood, root_freq, progression,
            chords>>

taVars == <<ta_entry, ta_pc, ta_word, ta_syllables, ta_emphasis, ta_text,
            ta_words, ta_i, ta_phrases, ta_current_phrase, ta_syllable_count>>

acVars == <<ac_entry, ac_impl, ac_pc, ac_duration, ac_style, chord_track,
            bass_track, drum_track, ac_beat, ac_hits, ac_hihat,
            ac_accompaniment>>

amVars == <<am_impl, am_pc, am_melody_notes, am_syllable_count, extended,
            am_result>>

vars == <<gmVars, svcVars, mxVars, vpVars, cpVars, taVars, acVars, amVars>>

\* what each component leaves alone
gmOthers == <<svcVars, mxVars, vpVars, cpVars, taVars, acVars,
             amVars>>
svcOthers == <<gmVars, mxVars, vpVars, cpVars, taVars, acVars,
             amVars>>
mxOthers == <<gmVars, rq, env, vpVars, cpVars, taVars, acVars,
             amVars>>
vpOthers == <<gmVars, svcVars, mxVars, cpVars, taVars, acVars,
             amVars>>
cpOthers == <<gmVars, svcVars, mxVars, vpVars, taVars, acVars,
             amVars>>
taOthers == <<gmVars, svcVars, mxVars, vpVars, cpVars, acVars, amVars>>
acOthers == <<gmVars, svcVars, mxVars, vpVars, cpVars, taVars, amVars>>
amOthers == <<gmVars, svcVars, mxVars, vpVars, cpVars, taVars, acVars>>

-----------------------------------------------------------------------------
(* Bounds of the model *)

\* requests the server may be handling at once
NumRequests == 2

\* longest buffer handed to the mixer, in samples
MaxMixLen == 2

\* longest speech buffer handed to the vocal processing, in samples
MaxSpeechLen == 2

\* longest melody handed to the vocal processing, in notes
MaxNotes == 2

\* the sample rate the modelled AudioProcessor is constructed with
ModelSampleRate == 5

\* longest lyric, in vocabulary tokens
MaxWords == 3

\* longest word spelled from WordAlphabet, in characters
MaxWordLen == 3

-----------------------------------------------------------------------------
(* Generic helpers *)

Min(a, b) == IF a < b THEN a ELSE b
Max(a, b) == IF a > b THEN a ELSE b
Abs(a) == IF a < 0 THEN -a ELSE a

RECURSIVE SumSeq(_)
SumSeq(s) == IF s = <<>> THEN 0 ELSE Head(s) + SumSeq(Tail(s))

RECURSIVE Flatten(_)
Flatten(ss) == IF ss = <<>> THEN <<>> ELSE Head(ss) \o Flatten(Tail(ss))

RECURSIVE Repeat(_, _)
Repeat(x, n) == IF n <= 0 THEN <<>> ELSE <<x>> \o Repeat(x, n - 1)

\* Python s[:n] for 0 <= n
Take(s, n) == SubSeq(s, 1, Min(n, Len(s)))

-----------------------------------------------------------------------------
(* Text: a lyric is a sequence of one-character strings *)

LowerLetters == <<"a","b","c","d","e","f","g","h","i","j","k","l","m",
                  "n","o","p","q","r","s","t","u","v","w","x","y","z">>
UpperLetters == <<"A","B","C","D","E","F","G","H","I","J","K","L","M",
                  "N","O","P","Q","R","S","T","U","V","W","X","Y","Z">>

IsLower(c) == \E i \in 1..26 : LowerLetters[i] = c
IsUpper(c) == \E i \in 1..26 : UpperLetters[i] = c

\* str.lower() on one character
LowerChar(c) ==
    IF IsUpper(c)
    THEN LowerLetters[CHOOSE i \in 1..26 : UpperLetters[i] = c]
    ELSE c

\* a plausible slip: the text is not lower-cased
StrKeep(s) == s

\* str.lower()
StrLower(s) == [i \in 1..Len(s) |-> LowerChar(s[i])]

\* regex \w on the characters the model uses
IsWordChar(c) == IsLower(c) \/ IsUpper(c)

\* str.isspace() on the characters the model uses
IsSpace(c) == c = " "

\* re.findall(r'\b\w+\b', text): the maximal runs of word characters
RECURSIVE FindAllWords(_, _, _)
FindAllWords(text, i, cur) ==
    IF i > Len(text)
    THEN (IF cur = <<>> THEN <<>> ELSE <<cur>>)
    ELSE IF IsWordChar(text[i])
         THEN FindAllWords(text, i + 1, Append(cur, text[i]))
         ELSE (IF cur = <<>> THEN <<>> ELSE <<cur>>)
              \o FindAllWords(text, i + 1, <<>>)

\* str.split(): the maximal runs of non-whitespace characters
RECURSIVE SplitWords(_, _, _)
SplitWords(text, i, cur) ==
    IF i > Len(text)
    THEN (IF cur = <<>> THEN <<>> ELSE <<cur>>)
    ELSE IF ~IsSpace(text[i])
         THEN SplitWords(text, i + 1, Append(cur, text[i]))
         ELSE (IF cur = <<>> THEN <<>> ELSE <<cur>>)
              \o SplitWords(text, i + 1, <<>>)

text_split(text) == SplitWords(text, 1, <<>>)

\* The tokens lyrics are built from (as typed: capitals and punctuation kept)
Vocabulary ==
    { <<"H","e","l","l","o">>,
      <<"w","o","r","l","d",",">>,
      <<"a","n","d">>,
      <<"t","h","e">>,
      <<"e","v","e","r","y","b","o","d","y">>,
      <<"!">> }

RECURSIVE JoinSpace(_)
JoinSpace(ws) ==
    IF ws = <<>> THEN <<>>
    ELSE IF Len(ws) = 1 THEN ws[1]
    ELSE ws[1] \o <<" ">> \o JoinSpace(Tail(ws))

TokenSeqs == UNION { [1..n -> Vocabulary] : n \in 1..MaxWords }

\* every lyric of at most MaxWords tokens, and the blank lyric
Lyrics == { JoinSpace(ws) : ws \in TokenSeqs } \cup { <<" ">> }

-----------------------------------------------------------------------------
(* TextAnalyzer *)

emphasis_words ==
    { <<"l","o","v","e">>, <<"h","e","a","r","t">>, <<"d","r","e","a","m">>,
      <<"n","i","g","h","t">>, <<"l","i","g","h","t">>, <<"t","i","m","e">>,
      <<"l","i","f","e">>, <<"w","o","r","l","d">>, <<"f","e","e","l">>,
      <<"k","n","o","w">> }

vowels == {"a", "e", "i", "o", "u", "y"}

break_words == { <<"a","n","d">>, <<"b","u","t">>, <<"s","o">>,
                 <<"t","h","e","n">> }

\* the for loop of count_syllables: vowel groups
RECURSIVE VowelGroups(_, _, _)
VowelGroups(word, i, prev_char_was_vowel) ==
    IF i > Len(word) THEN 0
    ELSE LET is_vowel == word[i] \in vowels
         IN (IF is_vowel /\ ~prev_char_was_vowel THEN 1 ELSE 0)
            + VowelGroups(word, i + 1, is_vowel)

\* a plausible slip: the floor of one syllable is left out
count_syllables_unfloored(w) ==
    LET word == StrLower(w)
        count == VowelGroups(word, 1, FALSE)
    IN IF Len(word) > 0 /\ word[Len(word)] = "e" /\ count > 1
       THEN count - 1 ELSE count

count_syllables(w) ==
    LET word == StrLower(w)
        count == VowelGroups(word, 1, FALSE)
        count2 == IF Len(word) > 0 /\ word[Len(word)] = "e" /\ count > 1
                  THEN count - 1 ELSE count
    IN Max(1, count2)

\* a plausible slip: the length is looked at before the word list
get_word_emphasis_length_first(word) ==
    IF Len(word) > 6 THEN "high"
    ELSE IF Len(word) > 3 THEN "medium"
    ELSE IF word \in emphasis_words THEN "high"
    ELSE "low"

get_word_emphasis(word) ==
    IF word \in emphasis_words \/ Len(word) > 6 THEN "high"
    ELSE IF Len(word) > 3 THEN "medium"
    ELSE "low"

WordUnit(word) ==
    [word |-> word, syllables |-> count_syllables(word),
     emphasis |-> get_word_emphasis(word)]

\* the syllables at which a phrase is closed
PhraseSyllableLimit == 8

\* a plausible slip: the phrase is closed only above the limit
ShouldFlushOver(syl_count, word) ==
    syl_count > PhraseSyllableLimit \/ word \in break_words

\* line 36: syllable_count >= 8 or word in ['and', 'but', 'so', 'then']
ShouldFlush(syl_count, word) ==
    syl_count >= PhraseSyllableLimit \/ word \in break_words

\* the for loop of analyze_text_phrasing, from word i on
RECURSIVE PhrasingLoop(_, _, _, _, _)
PhrasingLoop(words, i, phrases, current_phrase, syl_count) ==
    IF i > Len(words)
    THEN (IF current_phrase # <<>> THEN Append(phrases, current_phrase)
          ELSE phrases)
    ELSE LET unit == WordUnit(words[i])
             cp == Append(current_phrase, unit)
             sc == syl_count + unit.syllables
         IN IF ShouldFlush(sc, words[i])
            THEN PhrasingLoop(words, i + 1, Append(phrases, cp), <<>>, 0)
            ELSE PhrasingLoop(words, i + 1, phrases, cp, sc)

analyze_text_phrasing(text) ==
    PhrasingLoop(FindAllWords(StrLower(text), 1, <<>>), 1, <<>>, <<>>, 0)

-----------------------------------------------------------------------------
(* MusicalArranger.generate_melody *)

Styles == {"pop", "ballad", "jazz", "rock"}
Moods == {"happy", "sad"}

\* a plausible slip: the ballad scale starts one note lower, at F (174.61 Hz)
base_notes_from_f(style) ==
    IF style = "pop" THEN <<26163, 29366, 32963, 39200, 44000>>
    ELSE IF style = "ballad"
         THEN <<17461, 19600, 22000, 24694, 26163, 29366, 32963>>
    ELSE IF style = "jazz" THEN <<22000, 26163, 29366, 32963, 41530>>
    ELSE <<26163, 29366, 32963, 34923, 39200, 44000>>

base_notes(style) ==
    IF style = "pop" THEN <<26163, 29366, 32963, 39200, 44000>>
    ELSE IF style = "ballad"
         THEN <<19600, 22000, 24694, 26163, 29366, 32963, 34923>>
    ELSE IF style = "jazz" THEN <<22000, 26163, 29366, 32963, 41530>>
    ELSE <<26163, 29366, 32963, 34923, 39200, 44000>>

vocal_range(style) ==
    IF style = "pop" THEN <<22000, 50000>>
    ELSE IF style = "ballad" THEN <<18000, 40000>>
    ELSE <<20000, 45000>>

\* sum(word['syllables'] for word in phrase)
PhraseLength(phrase) ==
    SumSeq([k \in 1..Len(phrase) |-> phrase[k].syllables])

\* the emphasis seen by each pass of the nested word/syllable loops
PhraseSyllables(phrase) ==
    Flatten([k \in 1..Len(phrase) |->
                Repeat(phrase[k].emphasis, phrase[k].syllables)])

TotalSyllables(phrases) ==
    SumSeq([p \in 1..Len(phrases) |-> PhraseLength(phrases[p])])

\* a plausible slip: a high-emphasis syllable rises whatever the arc
TargetIndexNoArc(notes, cur, emphasis, syl_count, phrase_length) ==
    LET mid == Len(notes) \div 2
    IN IF emphasis = "high"
       THEN IF syl_count * 10 < 7 * phrase_length
            THEN Min(Len(notes) - 1, cur + 1)
            ELSE Max(0, cur - 1)
       ELSE IF emphasis = "low" THEN Max(0, cur - 1)
       ELSE IF Abs(cur - mid) > 2
            THEN (IF cur > mid THEN cur - 1 ELSE cur + 1)
            ELSE cur

\* a plausible slip: a medium syllable returns from one step further in
TargetIndexNarrow(notes, cur, emphasis, syl_count, phrase_length) ==
    LET mid == Len(notes) \div 2
        arc == IF syl_count < phrase_length \div 2 THEN 1 ELSE -1
    IN IF emphasis = "high"
       THEN IF syl_count * 10 < 7 * phrase_length
            THEN Min(Len(notes) - 1, cur + arc)
            ELSE Max(0, cur - 1)
       ELSE IF emphasis = "low" THEN Max(0, cur - 1)
       ELSE IF Abs(cur - mid) > 1
            THEN (IF cur > mid THEN cur - 1 ELSE cur + 1)
            ELSE cur

\* lines 57-82: the target index of one syllable
TargetIndex(notes, cur, emphasis, syl_count, phrase_length) ==
    LET phrase_peak == phrase_length \div 2
        arc_direction == IF syl_count < phrase_peak THEN 1 ELSE -1
        mid == Len(notes) \div 2
    IN IF emphasis = "high"
       THEN IF syl_count * 10 < 7 * phrase_length
            THEN Min(Len(notes) - 1, cur + arc_direction)
            ELSE Max(0, cur - 1)
       ELSE IF emphasis = "low" THEN Max(0, cur - 1)
       ELSE IF Abs(cur - mid) > 2
            THEN (IF cur > mid THEN cur - 1 ELSE cur + 1)
            ELSE cur

\* lines 84-89: move at most one step toward the target
SmoothStep(notes, cur, target_index) ==
    LET step_size == Min(1, Abs(target_index - cur))
    IN IF target_index > cur THEN Min(Len(notes) - 1, cur + step_size)
       ELSE IF target_index < cur THEN Max(0, cur - step_size)
       ELSE cur

\* a plausible slip: the two comparisons point the wrong way
RangeCorrectSwapped(notes, range, idx) ==
    IF notes[idx + 1] > range[1] THEN Min(idx + 1, Len(notes) - 1)
    ELSE IF notes[idx + 1] < range[2] THEN Max(idx - 1, 0)
    ELSE idx

\* lines 91-98: keep the note in the vocal range
RangeCorrect(notes, range, idx) ==
    IF notes[idx + 1] < range[1] THEN Min(idx + 1, Len(notes) - 1)
    ELSE IF notes[idx + 1] > range[2] THEN Max(idx - 1, 0)
    ELSE idx

\* lines 55-99: the index after one syllable
NoteStep(style, cur, emphasis, syl_count, phrase_length) ==
    LET notes == base_notes(style)
        t == TargetIndex(notes, cur, emphasis, syl_count, phrase_length)
    IN RangeCorrect(notes, vocal_range(style), SmoothStep(notes, cur, t))

\* a plausible slip: the resolution note is appended instead of replacing
ResolvePhraseAppend(pm, notes, resolution_index) ==
    Append(pm, notes[resolution_index + 1])

\* a plausible slip: the index is lowered but the note is left as it was
ResolvePhraseKeep(pm, notes, resolution_index) == pm

\* lines 104-106: phrase_melody[-1] = base_notes[resolution_index]
ResolvePhrase(pm, notes, resolution_index) ==
    [pm EXCEPT ![Len(pm)] = notes[resolution_index + 1]]

GM_Init ==
    /\ gm_text \in Lyrics
    /\ gm_phrases = analyze_text_phrasing(gm_text)
    /\ gm_style \in Styles
    /\ gm_mood \in Moods
    /\ gm_pc = "loop"
    /\ melody = <<>>
    /\ phrase_melody = <<>>
    /\ current_note_index = 2
    /\ phrase_idx = 0
    /\ syllable_count = 0
    /\ gm_prev_index = 2
    /\ gm_last = "start"

\* one pass of the innermost loop (lines 55-101)
GM_Syllable ==
    /\ gm_pc = "loop"
    /\ phrase_idx < Len(gm_phrases)
    /\ LET phrase == gm_phrases[phrase_idx + 1]
           phrase_length == PhraseLength(phrase)
       IN /\ syllable_count < phrase_length
          /\ LET emphasis == PhraseSyllables(phrase)[syllable_count + 1]
                 idx == NoteStep(gm_style, current_note_index, emphasis,
                                 syllable_count, phrase_length)
             IN /\ current_note_index' = idx
                /\ phrase_melody' =
                       Append(phrase_melody, base_notes(gm_style)[idx + 1])
    /\ syllable_count' = syllable_count + 1
    /\ gm_prev_index' = current_note_index
    /\ gm_last' = "syllable"
    /\ UNCHANGED <<gm_text, gm_phrases, gm_style, gm_mood, gm_pc, melody,
                   phrase_idx>>
    /\ UNCHANGED gmOthers

\* the end of one pass of the phrase loop (lines 103-109)
GM_EndPhrase ==
    /\ gm_pc = "loop"
    /\ phrase_idx < Len(gm_phrases)
    /\ syllable_count = PhraseLength(gm_phrases[phrase_idx + 1])
    /\ IF phrase_melody # <<>>
       THEN LET resolution_index == Max(0, current_note_index - 1)
            IN /\ melody' = melody \o ResolvePhrase(phrase_melody,
                                base_notes(gm_style), resolution_index)
               /\ current_note_index' = resolution_index
       ELSE /\ melody' = melody \o phrase_melody
            /\ current_note_index' = current_note_index
    /\ phrase_melody' = <<>>
    /\ syllable_count' = 0
    /\ phrase_idx' = phrase_idx + 1
    /\ gm_prev_index' = current_note_index
    /\ gm_last' = "resolve"
    /\ UNCHANGED <<gm_text, gm_phrases, gm_style, gm_mood, gm_pc>>
    /\ UNCHANGED gmOthers

\* lines 111-112: return melody
GM_Return ==
    /\ gm_pc = "loop"
    /\ phrase_idx = Len(gm_phrases)
    /\ gm_pc' = "done"
    /\ gm_last' = "return"
    /\ UNCHANGED <<gm_text, gm_phrases, gm_style, gm_mood, melody,
                   phrase_melody, current_note_index, phrase_idx,
                   syllable_count, gm_prev_index>>
    /\ UNCHANGED gmOthers

GM_Next == GM_Syllable \/ GM_EndPhrase \/ GM_Return

-----------------------------------------------------------------------------
(* The service: POST /generate-singing served by the one musical_singer *)

Requests == 1..NumRequests

\* lyrics the clients send: none, blank, punctuation only, words
HelloWorld == <<"H","e","l","l","o"," ","w","o","r","l","d",",">>

ServiceTexts == { <<>>, <<" ">>, <<"!">>, HelloWorld }

\* mix levels the clients send, in 1/100 (any JSON number is accepted)
VolumeLevels == {15, 90}

\* AudioProcessor.__init__: the levels before any request
DefaultVocalLevel == 100
DefaultMusicLevel == 5

Providers == <<"gtts", "edge", "say", "espeak">>

Envs == [gtts_available : BOOLEAN, edge_tts_available : BOOLEAN,
         gemini_available : BOOLEAN, say_installed : BOOLEAN,
         espeak_installed : BOOLEAN]

\* TTSEngines.__init__ line 46
free_tts_available(e) ==
    e.gtts_available \/ e.edge_tts_available \/ e.gemini_available

IdleRequest ==
    [pc |-> "idle", text |-> <<>>, include_music |-> FALSE,
     vocal_volume |-> 0, music_volume |-> 0, ctx |-> "none",
     attempts |-> <<>>, speech_source |-> "none", phonetic |-> "none",
     fallbacks |-> <<>>,
     used_vocal |-> -1, used_music |-> -1, result |-> "none",
     status |-> 0, label |-> "none"]

Svc_Init ==
    /\ rq = [r \in Requests |-> IdleRequest]
    /\ vocal_mix_level = DefaultVocalLevel
    /\ music_mix_level = DefaultMusicLevel
    /\ env \in Envs

\* a host with the free engines importable
Svc_InitFree ==
    /\ Svc_Init
    /\ env.gtts_available /\ env.edge_tts_available /\ env.gemini_available

Svc_Idle ==
    /\ rq = [r \in Requests |-> IdleRequest]
    /\ vocal_mix_level = DefaultVocalLevel
    /\ music_mix_level = DefaultMusicLevel
    /\ env = [gtts_available |-> FALSE, edge_tts_available |-> FALSE,
              gemini_available |-> FALSE, say_installed |-> FALSE,
              espeak_installed |-> FALSE]

Set(r, rec) == rq' = [rq EXCEPT ![r] = rec]

\* generate_phonetic_speech: line 265 divides by len(words)
generate_phonetic_speech(text) ==
    LET words == text_split(text)
    IN IF Len(words) = 0 THEN "ZeroDivisionError" ELSE "audio"

\* the vowel count of create_chorus_melody / create_verse_melody
RECURSIVE CountIn(_, _)
CountIn(word, chars) ==
    IF word = <<>> THEN 0
    ELSE (IF LowerChar(Head(word)) \in chars THEN 1 ELSE 0)
         + CountIn(Tail(word), chars)

\* len(generate_text_based_melody(text, style, mood)): both branches emit
\* max(1, vowels) notes per whitespace-separated word
TextBasedMelodyLen(text) ==
    LET words == text_split(text)
    IN SumSeq([k \in 1..Len(words) |->
                  Max(1, CountIn(words[k], {"a", "e", "i", "o", "u"}))])

\* create_basic_vocal_singing: line 294 divides by len(melody_notes)
create_basic_vocal_singing(text) ==
    IF TextBasedMelodyLen(text) = 0 THEN "ZeroDivisionError" ELSE "audio"

\* app.py lines 64 and 68
SynthesisMethod(include_music, e) ==
    IF include_music
    THEN (IF free_tts_available(e)
          THEN "free_tts_musical_with_accompaniment"
          ELSE "system_tts_musical_with_accompaniment")
    ELSE (IF free_tts_available(e) THEN "free_tts_musical"
          ELSE "system_tts_musical")

\* app.py lines 38-48: read the JSON body, reject missing lyrics
ReceiveOf(r, texts, musics) ==
    /\ rq[r].pc = "idle"
    /\ \E text \in texts, im \in musics,
          vv \in VolumeLevels, mv \in VolumeLevels :
          Set(r, [rq[r] EXCEPT
                    !.text = text, !.include_music = im,
                    !.vocal_volume = vv, !.music_volume = mv,
                    !.pc = IF text = <<>> THEN "done" ELSE "set_vocal",
                    !.status = IF text = <<>> THEN 400 ELSE 0])
    /\ UNCHANGED <<vocal_mix_level, music_mix_level, env>>
    /\ UNCHANGED svcOthers

\* any request the boundary can receive
Receive(r) == ReceiveOf(r, ServiceTexts, BOOLEAN)

\* a request for a full arrangement of worded lyrics
ReceiveSong(r) == ReceiveOf(r, {HelloWorld}, {TRUE})

\* app.py line 58
SetVocalLevel(r) ==
    /\ rq[r].pc = "set_vocal"
    /\ vocal_mix_level' = rq[r].vocal_volume
    /\ Set(r, [rq[r] EXCEPT !.pc = "set_music"])
    /\ UNCHANGED <<music_mix_level, env>>
    /\ UNCHANGED svcOthers

\* app.py line 59
SetMusicLevel(r) ==
    /\ rq[r].pc = "set_music"
    /\ music_mix_level' = rq[r].music_volume
    /\ Set(r, [rq[r] EXCEPT !.pc = "dispatch"])
    /\ UNCHANGED <<vocal_mix_level, env>>
    /\ UNCHANGED svcOthers

\* where create_harmonic_singing starts: generate_system_tts inside its try
EnterHarmonic(rec) ==
    [rec EXCEPT !.pc = "sys_say", !.ctx = "harmonic",
                !.fallbacks = Append(@, "harmonic")]

\* create_singing_voice / _vocals_only lines 33-39 and 49-55
Dispatch(r) ==
    /\ rq[r].pc = "dispatch"
    /\ IF free_tts_available(env)
       THEN Set(r, [rq[r] EXCEPT !.pc = "gs_gtts", !.ctx = "free"])
       ELSE Set(r, EnterHarmonic(rq[r]))
    /\ UNCHANGED <<vocal_mix_level, music_mix_level, env>>
    /\ UNCHANGED svcOthers

\* generate_speech lines 69-77
TryGtts(r) ==
    /\ rq[r].pc = "gs_gtts"
    /\ IF env.gtts_available
       THEN \E ok \in BOOLEAN :
              Set(r, [rq[r] EXCEPT
                        !.attempts = Append(@, "gtts"),
                        !.speech_source = IF ok THEN "gtts" ELSE @,
                        !.pc = IF ok THEN "process" ELSE "gs_edge"])
       ELSE Set(r, [rq[r] EXCEPT !.pc = "gs_edge"])
    /\ UNCHANGED <<vocal_mix_level, music_mix_level, env>>
    /\ UNCHANGED svcOthers

\* generate_speech lines 79-90
TryEdge(r) ==
    /\ rq[r].pc = "gs_edge"
    /\ IF env.edge_tts_available
       THEN \E ok \in BOOLEAN :
              Set(r, [rq[r] EXCEPT
                        !.attempts = Append(@, "edge"),
                        !.speech_source = IF ok THEN "edge" ELSE @,
                        !.pc = IF ok THEN "process" ELSE "sys_say"])
       ELSE Set(r, [rq[r] EXCEPT !.pc = "sys_say"])
    /\ UNCHANGED <<vocal_mix_level, music_mix_level, env>>
    /\ UNCHANGED svcOthers

\* what subprocess.run and the load can do: audio, a nonzero exit or an
\* unreadable file (no exception), or an exception (command missing, timeout)
CommandOutcomes(installed) ==
    IF installed THEN {"ok", "soft_fail", "raise"} ELSE {"raise"}

\* a provider attempt is logged for the generate_speech call only
LogAttempt(rec, provider) ==
    IF rec.ctx = "free" THEN Append(rec.attempts, provider) ELSE rec.attempts

\* where a system-TTS result goes: back into text_to_musical_singing_free
\* or into apply_singing_effects
AfterSystemTts(rec) == IF rec.ctx = "free" THEN "process" ELSE "effects"

\* generate_system_tts lines 225-252: an exception from say leaves the try
AfterSayFailure(outcome) ==
    IF outcome = "raise" THEN "sys_phonetic" ELSE "sys_espeak"

\* generate_system_tts lines 225-238
TrySay(r) ==
    /\ rq[r].pc = "sys_say"
    /\ \E outcome \in CommandOutcomes(env.say_installed) :
          Set(r, [rq[r] EXCEPT
                    !.attempts = LogAttempt(rq[r], "say"),
                    !.speech_source =
                        IF outcome = "ok" /\ rq[r].ctx = "free"
                        THEN "say" ELSE @,
                    !.pc = IF outcome = "ok" THEN AfterSystemTts(rq[r])
                           ELSE AfterSayFailure(outcome)])
    /\ UNCHANGED <<vocal_mix_level, music_mix_level, env>>
    /\ UNCHANGED svcOthers

\* generate_system_tts lines 240-252
TryEspeak(r) ==
    /\ rq[r].pc = "sys_espeak"
    /\ \E outcome \in CommandOutcomes(env.espeak_installed) :
          Set(r, [rq[r] EXCEPT
                    !.attempts = LogAttempt(rq[r], "espeak"),
                    !.speech_source =
                        IF outcome = "ok" /\ rq[r].ctx = "free"
                        THEN "espeak" ELSE @,
                    !.pc = IF outcome = "ok" THEN AfterSystemTts(rq[r])
                           ELSE "sys_phonetic"])
    /\ UNCHANGED <<vocal_mix_level, music_mix_level, env>>
    /\ UNCHANGED svcOthers

\* the phonetic fallback raised: in generate_speech nothing catches it before
\* create_singing_voice's except (lines 41-43 / 57-59), which calls
\* create_harmonic_singing; in create_harmonic_singing its own except
\* (line 129) catches it and create_basic_vocal_singing follows
OnPhoneticError(rec) ==
    IF rec.ctx = "free" THEN EnterHarmonic(rec)
    ELSE [rec EXCEPT !.pc = "basic", !.fallbacks = Append(@, "basic")]

\* generate_system_tts lines 254-256
Phonetic(r) ==
    /\ rq[r].pc = "sys_phonetic"
    /\ LET rec == [rq[r] EXCEPT
                      !.attempts = LogAttempt(rq[r], "phonetic"),
                      !.phonetic = generate_phonetic_speech(rq[r].text)]
       IN IF generate_phonetic_speech(rq[r].text) = "audio"
          THEN Set(r, [rec EXCEPT
                         !.speech_source =
                             IF rec.ctx = "free" THEN "phonetic" ELSE @,
                         !.pc = AfterSystemTts(rec)])
          ELSE Set(r, OnPhoneticError(rec))
    /\ UNCHANGED <<vocal_mix_level, music_mix_level, env>>
    /\ UNCHANGED svcOthers

\* text_to_musical_singing_free lines 85-95 (vocals only: 69-77): phrasing,
\* melody, apply_musical_processing; numpy/scipy may raise in any of them
Process(r) ==
    /\ rq[r].pc = "process"
    /\ \E ok \in BOOLEAN :
          IF ok
          THEN IF rq[r].include_music
               THEN Set(r, [rq[r] EXCEPT !.pc = "arrange"])
               ELSE Set(r, [rq[r] EXCEPT !.pc = "respond",
                                         !.result = "vocals"])
          ELSE Set(r, EnterHarmonic(rq[r]))
    /\ UNCHANGED <<vocal_mix_level, music_mix_level, env>>
    /\ UNCHANGED svcOthers

\* create_full_musical_arrangement lines 106-112 and the mixer up to its
\* weighted sum (audio_processing.py lines 483-515)
Arrange(r) ==
    /\ rq[r].pc = "arrange"
    /\ \E ok \in BOOLEAN :
          IF ok THEN Set(r, [rq[r] EXCEPT !.pc = "mix_read_vocal"])
          ELSE Set(r, EnterHarmonic(rq[r]))
    /\ UNCHANGED <<vocal_mix_level, music_mix_level, env>>
    /\ UNCHANGED svcOthers

\* audio_processing.py line 519, left operand: self.vocal_mix_level
MixReadVocal(r) ==
    /\ rq[r].pc = "mix_read_vocal"
    /\ Set(r, [rq[r] EXCEPT !.used_vocal = vocal_mix_level,
                            !.pc = "mix_read_music"])
    /\ UNCHANGED <<vocal_mix_level, music_mix_level, env>>
    /\ UNCHANGED svcOthers

\* audio_processing.py line 519, right operand: self.music_mix_level; the
\* rest of the mixer (lines 530-544) and the return of the mix
MixReadMusic(r) ==
    /\ rq[r].pc = "mix_read_music"
    /\ Set(r, [rq[r] EXCEPT !.used_music = music_mix_level,
                            !.result = "mix", !.pc = "respond"])
    /\ UNCHANGED <<vocal_mix_level, music_mix_level, env>>
    /\ UNCHANGED svcOthers

\* a plausible slip: no try around the effects, the error reaches the handler
OnSingingEffectsErrorPropagates(rec) ==
    [rec EXCEPT !.pc = "done", !.status = 500, !.result = "raised"]

\* create_harmonic_singing lines 129-133: the except clause, then the
\* fallback to create_basic_vocal_singing
OnSingingEffectsError(rec) ==
    [rec EXCEPT !.pc = "basic", !.fallbacks = Append(@, "basic")]

\* create_harmonic_singing lines 127-128: apply_singing_effects
SingingEffects(r) ==
    /\ rq[r].pc = "effects"
    /\ \E ok \in BOOLEAN :
          IF ok
          THEN Set(r, [rq[r] EXCEPT !.pc = "respond", !.result = "effects"])
          ELSE Set(r, OnSingingEffectsError(rq[r]))
    /\ UNCHANGED <<vocal_mix_level, music_mix_level, env>>
    /\ UNCHANGED svcOthers

\* create_harmonic_singing line 133; an exception here is caught by nothing
\* but the handler (app.py lines 97-101)
BasicVocal(r) ==
    /\ rq[r].pc = "basic"
    /\ IF create_basic_vocal_singing(rq[r].text) = "audio"
       THEN Set(r, [rq[r] EXCEPT !.pc = "respond", !.result = "basic"])
       ELSE Set(r, [rq[r] EXCEPT !.pc = "done", !.status = 500,
                                 !.result = "raised"])
    /\ UNCHANGED <<vocal_mix_level, music_mix_level, env>>
    /\ UNCHANGED svcOthers

\* app.py lines 64/68 and 70-95
Respond(r) ==
    /\ rq[r].pc = "respond"
    /\ Set(r, [rq[r] EXCEPT
                 !.pc = "done", !.status = 200,
                 !.label = SynthesisMethod(rq[r].include_music, env)])
    /\ UNCHANGED <<vocal_mix_level, music_mix_level, env>>
    /\ UNCHANGED svcOthers

\* the steps of a request once it is received
Serve(r) ==
    \/ SetVocalLevel(r) \/ SetMusicLevel(r) \/ Dispatch(r)
    \/ TryGtts(r) \/ TryEdge(r) \/ TrySay(r) \/ TryEspeak(r) \/ Phonetic(r)
    \/ Process(r) \/ Arrange(r) \/ MixReadVocal(r) \/ MixReadMusic(r)
    \/ SingingEffects(r) \/ BasicVocal(r) \/ Respond(r)

GM_Idle ==
    /\ gm_text = <<>>
    /\ gm_phrases = <<>>
    /\ gm_style = "pop"
    /\ gm_mood = "happy"
    /\ gm_pc = "idle"
    /\ melody = <<>>
    /\ phrase_melody = <<>>
    /\ current_note_index = 2
    /\ phrase_idx = 0
    /\ syllable_count = 0
    /\ gm_prev_index = 2
    /\ gm_last = "start"

-----------------------------------------------------------------------------
(* Audio buffers: sequences of samples in 1/1000 of full scale *)

\* integer division rounding toward zero, b > 0
DivTrunc(a, b) == IF a >= 0 THEN a \div b ELSE -((-a) \div b)

Sign(a) == IF a > 0 THEN 1 ELSE IF a < 0 THEN -1 ELSE 0

RECURSIVE MaxOf(_)
MaxOf(s) == IF s = <<>> THEN 0 ELSE Max(Head(s), MaxOf(Tail(s)))

\* np.max(np.abs(buf)) of a non-empty buffer
Peak(buf) == MaxOf([k \in 1..Len(buf) |-> Abs(buf[k])])

AllZero(buf) == \A k \in 1..Len(buf) : buf[k] = 0

\* sample k (1-based) of buf, 0 outside it
At(buf, k) == IF k >= 1 /\ k <= Len(buf) THEN buf[k] ELSE 0

\* a*x + b*y sample by sample, a and b in 1/10
Blend(x, a, y, b) ==
    [k \in 1..Len(x) |-> DivTrunc(a * x[k] + b * y[k], 10)]

\* signal.butter(..., btype='low') + filtfilt: a zero-phase low-pass keeps
\* the length of its input; the model smooths over three samples
LowPass(x) ==
    [k \in 1..Len(x) |->
        DivTrunc(At(x, k - 1) + 2 * x[k] + At(x, k + 1), 4)]

\* signal.butter(..., btype='high') + filtfilt: what the low-pass removes
HighPass(x) == [k \in 1..Len(x) |-> x[k] - LowPass(x)[k]]

\* signal.butter(..., btype='band') + filtfilt: no level, no alternation
BandPass(x) ==
    [k \in 1..Len(x) |-> DivTrunc(At(x, k + 1) - At(x, k - 1), 2)]

-----------------------------------------------------------------------------
(* AudioProcessor.mix_vocal_and_accompaniment *)

\* the samples the callers' buffers are drawn from
MixSamples == {-1000, 0, 1000}

MixBuffers == UNION { [1..n -> MixSamples] : n \in 0..MaxMixLen }

\* the mix levels a request may have set, in 1/100
MixLevels == {0, DefaultMusicLevel, DefaultVocalLevel}

\* lines 549-563
enhance_vocal_clarity(v) ==
    LET filtered == HighPass(v)
        presence_boost == BandPass(v)
    IN Blend(filtered, 10, presence_boost, 3)

\* lines 568-584
filter_accompaniment_for_vocals(a) ==
    Blend(LowPass(a), 7, HighPass(a), 5)

\* threshold 0.6 and ratio 3.0 of apply_light_compression, for samples in
\* 1/100000
CompressionThreshold == 60000
CompressionRatio == 3

\* a plausible slip: only the samples above the threshold are returned
apply_light_compression_above_only(audio) ==
    LET RECURSIVE Keep(_)
        Keep(b) ==
            IF b = <<>> THEN <<>>
            ELSE (IF Abs(Head(b)) > CompressionThreshold
                  THEN <<Sign(Head(b))
                          * (CompressionThreshold
                             + DivTrunc(Abs(Head(b)) - CompressionThreshold,
                                        CompressionRatio))>>
                  ELSE <<>>) \o Keep(Tail(b))
    IN Keep(audio)

\* a plausible slip: the whole magnitude is divided, not the excess
apply_light_compression_whole(audio) ==
    [k \in 1..Len(audio) |->
        IF Abs(audio[k]) > CompressionThreshold
        THEN Sign(audio[k])
             * (CompressionThreshold
                + DivTrunc(Abs(audio[k]), CompressionRatio))
        ELSE audio[k]]

\* lines 586-604
apply_light_compression(audio) ==
    [k \in 1..Len(audio) |->
        IF Abs(audio[k]) > CompressionThreshold
        THEN Sign(audio[k])
             * (CompressionThreshold
                + DivTrunc(Abs(audio[k]) - CompressionThreshold,
                           CompressionRatio))
        ELSE audio[k]]

\* line 591 and the call of line 532: the compression works on a copy;
\* audio is the caller's buffer after the call, compressed what is returned
CompressionCall(audio) ==
    [audio |-> audio, compressed |-> apply_light_compression(audio)]

\* a plausible slip: a failed sub-step mixes silence
UntreatedSilence(buf) == [k \in 1..Len(buf) |-> 0]

\* lines 500 and 508: the trimmed input, copied, stands in for the
\* sub-step's result
UntreatedCopy(buf) == buf

\* the peak the mixer normalizes to, 0.9, in 1/1000
MixPeak == 900

\* a plausible slip: the "* 0.9" is forgotten
NormalizeMixFullScale(buf) ==
    [k \in 1..Len(buf) |-> DivTrunc(buf[k] * 1000, Peak(buf))]

\* line 539: mixed / np.max(np.abs(mixed)) * 0.9, result in 1/1000
NormalizeMix(buf) ==
    [k \in 1..Len(buf) |-> DivTrunc(buf[k] * MixPeak, Peak(buf))]

\* line 519: enhanced_vocals * vocal_mix_level
\*           + filtered_accompaniment * music_mix_level, in 1/100000
WeightedSum(ev, vl, fa, ml) ==
    [k \in 1..Len(ev) |-> ev[k] * vl + fa[k] * ml]

MX_Init ==
    /\ mx_pc = "start"
    /\ vocal_audio \in MixBuffers
    /\ accompaniment \in MixBuffers
    /\ vocal_trimmed = <<>>
    /\ accompaniment_trimmed = <<>>
    /\ enhanced_vocals = <<>>
    /\ filtered_accompaniment = <<>>
    /\ mixed = <<>>
    /\ mx_failed = {}
    /\ mx_normalized = FALSE
    /\ compress_input = <<>>

MX_Idle ==
    /\ mx_pc = "idle"
    /\ vocal_audio = <<>>
    /\ accompaniment = <<>>
    /\ vocal_trimmed = <<>>
    /\ accompaniment_trimmed = <<>>
    /\ enhanced_vocals = <<>>
    /\ filtered_accompaniment = <<>>
    /\ mixed = <<>>
    /\ mx_failed = {}
    /\ mx_normalized = FALSE
    /\ compress_input = <<>>

\* lines 483-492: the debug prints take .max() of both inputs, which raises
\* on a zero-length array; then both are cut to the shorter length
MX_Trim ==
    /\ mx_pc = "start"
    /\ IF Len(vocal_audio) = 0 \/ Len(accompaniment) = 0
       THEN /\ mx_pc' = "raised"
            /\ UNCHANGED <<vocal_trimmed, accompaniment_trimmed>>
       ELSE LET min_length == Min(Len(vocal_audio), Len(accompaniment))
            IN /\ vocal_trimmed' = Take(vocal_audio, min_length)
               /\ accompaniment_trimmed' = Take(accompaniment, min_length)
               /\ mx_pc' = "enhance"
    /\ UNCHANGED <<vocal_audio, accompaniment, enhanced_vocals,
                   filtered_accompaniment, mixed, mx_failed, mx_normalized,
                   vocal_mix_level, music_mix_level>>
    /\ UNCHANGED compress_input
    /\ UNCHANGED mxOthers

\* lines 494-500: filtfilt raises on short input; then the copy is used
MX_Enhance ==
    /\ mx_pc = "enhance"
    /\ \E ok \in BOOLEAN :
          IF ok
          THEN /\ enhanced_vocals' = enhance_vocal_clarity(vocal_trimmed)
               /\ UNCHANGED mx_failed
          ELSE /\ enhanced_vocals' = UntreatedCopy(vocal_trimmed)
               /\ mx_failed' = mx_failed \cup {"enhance"}
    /\ mx_pc' = "filter"
    /\ UNCHANGED <<vocal_audio, accompaniment, vocal_trimmed,
                   accompaniment_trimmed, filtered_accompaniment, mixed,
                   mx_normalized, vocal_mix_level, music_mix_level>>
    /\ UNCHANGED compress_input
    /\ UNCHANGED mxOthers

\* lines 502-508
MX_Filter ==
    /\ mx_pc = "filter"
    /\ \E ok \in BOOLEAN :
          IF ok
          THEN /\ filtered_accompaniment' =
                      filter_accompaniment_for_vocals(accompaniment_trimmed)
               /\ UNCHANGED mx_failed
          ELSE /\ filtered_accompaniment' =
                      UntreatedCopy(accompaniment_trimmed)
               /\ mx_failed' = mx_failed \cup {"filter"}
    /\ mx_pc' = "sum"
    /\ UNCHANGED <<vocal_audio, accompaniment, vocal_trimmed,
                   accompaniment_trimmed, enhanced_vocals, mixed,
                   mx_normalized, vocal_mix_level, music_mix_level>>
    /\ UNCHANGED compress_input
    /\ UNCHANGED mxOthers

\* lines 510-528: the length double-check and the weighted sum
MX_Sum ==
    /\ mx_pc = "sum"
    /\ LET min_len == Min(Len(enhanced_vocals), Len(filtered_accompaniment))
           ev == Take(enhanced_vocals, min_len)
           fa == Take(filtered_accompaniment, min_len)
       IN /\ enhanced_vocals' = ev
          /\ filtered_accompaniment' = fa
          /\ mixed' = WeightedSum(ev, vocal_mix_level, fa, music_mix_level)
    /\ mx_pc' = "compress"
    /\ UNCHANGED <<vocal_audio, accompaniment, vocal_trimmed,
                   accompaniment_trimmed, mx_failed, mx_normalized,
                   vocal_mix_level, music_mix_level>>
    /\ UNCHANGED compress_input
    /\ UNCHANGED mxOthers

\* lines 530-535
MX_Compress ==
    /\ mx_pc = "compress"
    /\ \E ok \in BOOLEAN :
          IF ok
          THEN /\ mixed' = CompressionCall(mixed).compressed
               /\ compress_input' = CompressionCall(mixed).audio
               /\ UNCHANGED mx_failed
          ELSE /\ UNCHANGED mixed
               /\ compress_input' = mixed
               /\ mx_failed' = mx_failed \cup {"compress"}
    /\ mx_pc' = "normalize"
    /\ UNCHANGED <<vocal_audio, accompaniment, vocal_trimmed,
                   accompaniment_trimmed, enhanced_vocals,
                   filtered_accompaniment, mx_normalized, vocal_mix_level,
                   music_mix_level>>
    /\ UNCHANGED mxOthers

\* lines 537-544: normalize unless silent, return mixed (now in 1/1000)
MX_Normalize ==
    /\ mx_pc = "normalize"
    /\ IF Peak(mixed) > 0
       THEN /\ mixed' = NormalizeMix(mixed)
            /\ mx_normalized' = TRUE
       ELSE /\ mixed' = mixed
            /\ mx_normalized' = FALSE
    /\ mx_pc' = "done"
    /\ UNCHANGED <<vocal_audio, accompaniment, vocal_trimmed,
                   accompaniment_trimmed, enhanced_vocals,
                   filtered_accompaniment, mx_failed, vocal_mix_level,
                   music_mix_level>>
    /\ UNCHANGED compress_input
    /\ UNCHANGED mxOthers

MX_Next ==
    \/ MX_Trim \/ MX_Enhance \/ MX_Filter \/ MX_Sum \/ MX_Compress
    \/ MX_Normalize

-----------------------------------------------------------------------------
(* AudioProcessor.apply_musical_processing and what it calls *)

Zeros(n) == [k \in 1..n |-> 0]

\* Python's buf[a:b], a and b 0-based and within 0..len(buf)
Slice(buf, a, b) == IF b > a THEN SubSeq(buf, a + 1, b) ELSE <<>>

\* scipy.signal.resample(x, num): num samples spanning x; the model picks
\* the nearest earlier sample where scipy interpolates
Resample(x, num) ==
    IF Len(x) = 0 THEN Zeros(num)
    ELSE [k \in 1..num |-> x[((k - 1) * Len(x)) \div num + 1]]

\* np.linspace(a, b, n), values in 1/1000
Linspace(a, b, n) ==
    [k \in 1..n |->
        IF n = 1 THEN a ELSE a + DivTrunc((b - a) * (k - 1), n - 1)]

\* buf[a:b] *= fade (0-based a, b; fade in 1/1000), other samples kept
ScaleRange(buf, a, b, fade) ==
    [k \in 1..Len(buf) |->
        IF k - 1 >= a /\ k - 1 < b
        THEN DivTrunc(buf[k] * fade[k - a], 1000)
        ELSE buf[k]]

\* buf[a:a+len(part)] = part
WriteAt(buf, a, part) ==
    [k \in 1..Len(buf) |->
        IF k - 1 >= a /\ k - 1 < a + Len(part) THEN part[k - a] ELSE buf[k]]

\* buf[a:a+len(part)] += part
AddAt(buf, a, part) ==
    [k \in 1..Len(buf) |->
        IF k - 1 >= a /\ k - 1 < a + Len(part)
        THEN buf[k] + part[k - a]
        ELSE buf[k]]

\* base_freq = 200 Hz, in 1/100 Hz; a shift ratio is kept as its numerator
\* over base_freq, so that target_freq / base_freq is exact
base_freq == 20000
\* the clip bounds 0.7 and 1.5 as numerators over base_freq
RatioMin == 14000
RatioMax == 30000

\* a plausible slip: the wider range of an earlier tuning, 0.5 to 2.0
shift_ratio_wide(target_freq) ==
    Max(10000, Min(40000, target_freq))

\* lines 97-100: np.clip(target_freq / base_freq, 0.7, 1.5)
shift_ratio(target_freq) ==
    Max(RatioMin, Min(RatioMax, target_freq))

NoShift ==
    [called |-> FALSE, target |-> 0, length |-> 0, ratio |-> 0,
     new_length |-> 0, resampled |-> FALSE, raised |-> FALSE,
     segment |-> <<>>, out |-> <<>>]

\* a plausible slip: the resampled buffer is handed back as long as it is
pitch_shift_segment_unfitted(segment, target_freq, resample_ok) ==
    LET n == Len(segment)
        ratio == shift_ratio(target_freq)
        new_length == (n * base_freq) \div ratio
        shifted == Resample(segment, new_length)
        fits == n > 0 /\ new_length > 0 /\ resample_ok
        out == IF fits THEN shifted ELSE segment
    IN [out |-> out, same |-> ~fits,
        log |-> [called |-> TRUE, target |-> target_freq, length |-> n,
                 ratio |-> IF n = 0 THEN 0 ELSE ratio,
                 new_length |-> IF n = 0 THEN 0 ELSE new_length,
                 resampled |-> n > 0 /\ new_length > 0,
                 raised |-> n > 0 /\ new_length > 0 /\ ~resample_ok,
                 segment |-> segment, out |-> out]]

\* lines 90-131; resample_ok says whether the try block ran through.
\* out is the returned buffer, same is TRUE when it is the argument itself
pitch_shift_segment(segment, target_freq, resample_ok) ==
    LET n == Len(segment)
        ratio == shift_ratio(target_freq)
        new_length == (n * base_freq) \div ratio
        shifted == Resample(segment, new_length)
        pad_fade == Min(n - new_length, n \div 10)
        padded == shifted \o Zeros(n - new_length)
        crop_fade == Min(n \div 20, 50)
        cropped == Take(shifted, n)
        fits == n > 0 /\ new_length > 0 /\ resample_ok
        out == IF ~fits THEN segment
               ELSE IF new_length < n
               THEN (IF pad_fade > 0 /\ new_length >= pad_fade
                     THEN ScaleRange(padded, new_length - pad_fade,
                                     new_length, Linspace(1000, 0, pad_fade))
                     ELSE padded)
               ELSE (IF crop_fade > 0
                     THEN ScaleRange(cropped, n - crop_fade, n,
                                     Linspace(1000, 800, crop_fade))
                     ELSE cropped)
    IN [out |-> out, same |-> ~fits,
        log |-> [called |-> TRUE, target |-> target_freq, length |-> n,
                 ratio |-> IF n = 0 THEN 0 ELSE ratio,
                 new_length |-> IF n = 0 THEN 0 ELSE new_length,
                 resampled |-> n > 0 /\ new_length > 0,
                 raised |-> n > 0 /\ new_length > 0 /\ ~resample_ok,
                 segment |-> segment, out |-> out]]

\* a plausible slip: a quarter of the segment is faded
TransitionSamplesQuarter(n) == Min(n \div 4, 256)

\* line 66: min(len(shifted_segment) // 8, 256)
TransitionSamples(n) == Min(n \div 8, 256)

\* lines 55-86: one pass of the loop body for note i (0-based); gives the
\* buffers after the pass.  A segment is a view of audio: when
\* pitch_shift_segment hands the view back, the fade-in of line 78 lands in
\* audio too
ShiftNote(audio, pitched, notes, i, resample_ok) ==
    LET note_length == Len(audio) \div Len(notes)
        start_idx == i * note_length
        end_idx == Min((i + 1) * note_length, Len(audio))
        segment == Slice(audio, start_idx, end_idx)
        call == pitch_shift_segment(segment, notes[i + 1], resample_ok)
        shifted_segment == call.out
        transition_samples == TransitionSamples(Len(shifted_segment))
        crossfade == /\ i > 0
                     /\ Len(shifted_segment) > 0
                     /\ transition_samples > 0
                     /\ start_idx >= transition_samples
        faded_prev ==
            IF crossfade
            THEN ScaleRange(pitched, start_idx - transition_samples,
                            start_idx, Linspace(1000, 0, transition_samples))
            ELSE pitched
        fade_in == crossfade /\ Len(shifted_segment) >= transition_samples
        faded_segment ==
            IF fade_in
            THEN ScaleRange(shifted_segment, 0, transition_samples,
                            Linspace(0, 1000, transition_samples))
            ELSE shifted_segment
        audio_after ==
            IF fade_in /\ call.same
            THEN WriteAt(audio, start_idx, faded_segment)
            ELSE audio
        with_head ==
            IF fade_in
            THEN AddAt(faded_prev, start_idx,
                       Take(faded_segment, transition_samples))
            ELSE faded_prev
        rest == IF fade_in
                THEN Slice(faded_segment, transition_samples,
                           Len(faded_segment))
                ELSE faded_segment
        start2 == IF fade_in THEN start_idx + transition_samples
                  ELSE start_idx
        end2 == Min(start2 + Len(rest), Len(pitched))
    IN IF Len(segment) = 0
       THEN [audio |-> audio, pitched |-> pitched, log |-> NoShift]
       ELSE [audio |-> audio_after,
             pitched |-> IF end2 > start2
                         THEN WriteAt(with_head, start2,
                                      Take(rest, end2 - start2))
                         ELSE with_head,
             log |-> call.log]

\* line 139: 1 + 0.005 * sin(2 pi 4.2 t) in 1/1000, the sine sampled at
\* its quarter periods
Vibrato(k) == 1000 + 5 * <<0, 1, 0, -1>>[(k % 4) + 1]

\* lines 159-179: three band-passes around the formants, each added at 0.2;
\* filtfilt raises for all three or for none (same order, same input)
enhance_formants(audio, ok) ==
    IF ok
    THEN [k \in 1..Len(audio) |->
            audio[k] + 3 * DivTrunc(2 * BandPass(audio)[k], 10)]
    ELSE audio

\* what np.random.normal and the band-pass of lines 185-190 may give
BreathOutcomes == {"raised", "rising", "falling"}

\* lines 181-193: filtered noise at 0.05, about one step of the sample grid
add_breath_sounds(audio, breath) ==
    IF breath = "raised" THEN audio
    ELSE [k \in 1..Len(audio) |->
            audio[k] + (IF (k % 2 = 1) = (breath = "rising") THEN 1 ELSE -1)]

\* lines 195-210
apply_vocal_envelope(audio) ==
    LET attack_samples == ModelSampleRate \div 20
        release_samples == ModelSampleRate \div 10
        n == Len(audio)
        attack == Linspace(300, 1000, attack_samples)
        release == Linspace(1000, 200, release_samples)
        envelope ==
            [k \in 1..n |->
                IF release_samples > 0 /\ n > release_samples
                   /\ k > n - release_samples
                THEN release[k - (n - release_samples)]
                ELSE IF attack_samples > 0 /\ n > attack_samples
                        /\ k <= attack_samples
                THEN attack[k]
                ELSE 1000]
    IN [k \in 1..n |-> DivTrunc(audio[k] * envelope[k], 1000)]

\* the peak add_vocal_effects normalizes to, 0.6, in 1/1000
VocalPeak == 600

\* lines 136-152: everything before the normalization
VocalEffects(audio, formants_ok, breath) ==
    LET audio_with_vibrato ==
            [k \in 1..Len(audio) |->
                DivTrunc(audio[k] * Vibrato(k - 1), 1000)]
        enhanced_audio == enhance_formants(audio_with_vibrato, formants_ok)
    IN apply_vocal_envelope(add_breath_sounds(enhanced_audio, breath))

\* lines 153-157
add_vocal_effects(audio, formants_ok, breath) ==
    LET final_audio == VocalEffects(audio, formants_ok, breath)
    IN IF Peak(final_audio) > 0
       THEN [k \in 1..Len(final_audio) |->
                DivTrunc(final_audio[k] * VocalPeak, Peak(final_audio))]
       ELSE final_audio

\* line 23, with "and" where the code has "or"
EarlyReturnBoth(speech, notes) == Len(speech) = 0 /\ Len(notes) = 0

\* line 23
EarlyReturn(speech, notes) == Len(speech) = 0 \/ Len(notes) = 0

\* the sample rate MusicalTTSSinger constructs its AudioProcessor with
sample_rate == 22050

\* lines 30-32: int(syllable_count * 0.4 * rate)
target_samples_at(syllables, rate) == (syllables * 4 * rate) \div 10

\* a plausible slip: half a second per syllable
target_samples_half_second(phrases) ==
    (TotalSyllables(phrases) * 5 * ModelSampleRate) \div 10

\* lines 29-32: int(syllable_count * 0.4 * sample_rate)
target_samples(phrases) ==
    target_samples_at(TotalSyllables(phrases), ModelSampleRate)

\* the samples, target frequencies (1/100 Hz) and lyrics of the callers
SpeechSamples == {-1000, 1000}
SpeechBuffers == UNION { [1..n -> SpeechSamples] : n \in 0..MaxSpeechLen }
TargetFreqs == {-44000, 0, 19600, 26163, 2000000}
Melodies == UNION { [1..n -> TargetFreqs] : n \in 0..MaxNotes }

\* longer buffers, for segments long enough to be faded: the lengths, and
\* a buffer of each that is silent nowhere
LongLengths == {17, 33}
LongBuffers ==
    { [k \in 1..n |-> IF k % 3 = 0 THEN -1000 ELSE 1000] : n \in LongLengths }
VocalTexts == { <<"!">>, <<"H","e","l","l","o">>, HelloWorld }

VP_Idle ==
    /\ vp_entry = "none"
    /\ vp_pc = "idle"
    /\ speech_audio = <<>>
    /\ vp_melody = <<>>
    /\ vp_phrases = <<>>
    /\ vp_audio = <<>>
    /\ pitched_audio = <<>>
    /\ vp_i = 0
    /\ last_shift = NoShift
    /\ vp_steps = {}
    /\ vp_result = <<>>

\* a call of apply_musical_processing(speech_audio, melody, phrases), of
\* pitch_shift_to_melody(audio, melody) or of
\* pitch_shift_segment(segment, target_freq) on its own (the target kept
\* as a melody of one note)
VP_Init ==
    /\ vp_entry \in {"apply_musical_processing", "pitch_shift_to_melody",
                     "pitch_shift_segment"}
    /\ speech_audio \in SpeechBuffers \cup LongBuffers
    /\ vp_melody \in Melodies
    /\ IF vp_entry = "apply_musical_processing"
       THEN /\ speech_audio \in SpeechBuffers
            /\ vp_phrases \in {analyze_text_phrasing(t) : t \in VocalTexts}
            /\ vp_audio = <<>>
            /\ vp_pc = "call"
       ELSE IF vp_entry = "pitch_shift_to_melody"
       THEN /\ vp_phrases = <<>>
            /\ vp_audio = speech_audio
            /\ vp_pc = "shift"
       ELSE /\ Len(vp_melody) = 1
            /\ vp_phrases = <<>>
            /\ vp_audio = speech_audio
            /\ vp_pc = "segment_call"
    /\ pitched_audio = <<>>
    /\ vp_i = 0
    /\ last_shift = NoShift
    /\ vp_steps = {}
    /\ vp_result = <<>>

\* lines 23-35: the early return, else the time-stretch.  resample to zero
\* samples leaves nothing for the normalization of line 154 to take the
\* maximum of: the call raises
AMP_Stretch ==
    /\ vp_pc = "call"
    /\ IF EarlyReturn(speech_audio, vp_melody)
       THEN /\ vp_result' = speech_audio
            /\ vp_pc' = "done"
            /\ UNCHANGED <<vp_audio, vp_steps>>
       ELSE IF target_samples(vp_phrases) = 0
       THEN /\ vp_pc' = "raised"
            /\ UNCHANGED <<vp_audio, vp_steps, vp_result>>
       ELSE /\ vp_audio' = Resample(speech_audio, target_samples(vp_phrases))
            /\ vp_steps' = vp_steps \cup {"stretch"}
            /\ vp_pc' = "shift"
            /\ UNCHANGED vp_result
    /\ UNCHANGED <<vp_entry, speech_audio, vp_melody, vp_phrases,
                   pitched_audio, vp_i, last_shift>>
    /\ UNCHANGED vpOthers

\* lines 48-52
PSM_Enter ==
    /\ vp_pc = "shift"
    /\ IF Len(vp_melody) = 0
       THEN /\ pitched_audio' = vp_audio
            /\ vp_pc' = "return"
       ELSE /\ pitched_audio' = Zeros(Len(vp_audio))
            /\ vp_pc' = "segment"
    /\ vp_i' = 0
    /\ UNCHANGED <<vp_entry, speech_audio, vp_melody, vp_phrases, vp_audio,
                   last_shift, vp_steps, vp_result>>
    /\ UNCHANGED vpOthers

\* lines 54-86: one pass of the loop
PSM_Segment ==
    /\ vp_pc = "segment"
    /\ vp_i < Len(vp_melody)
    /\ \E resample_ok \in BOOLEAN :
          LET pass == ShiftNote(vp_audio, pitched_audio, vp_melody, vp_i,
                                resample_ok)
          IN /\ vp_audio' = pass.audio
             /\ pitched_audio' = pass.pitched
             /\ last_shift' = pass.log
    /\ vp_i' = vp_i + 1
    /\ vp_steps' = vp_steps \cup {"shift"}
    /\ UNCHANGED <<vp_entry, vp_pc, speech_audio, vp_melody, vp_phrases,
                   vp_result>>
    /\ UNCHANGED vpOthers

\* line 88 (end of the loop)
PSM_LoopEnd ==
    /\ vp_pc = "segment"
    /\ vp_i = Len(vp_melody)
    /\ vp_pc' = "return"
    /\ UNCHANGED <<vp_entry, speech_audio, vp_melody, vp_phrases, vp_audio,
                   pitched_audio, vp_i, last_shift, vp_steps, vp_result>>
    /\ UNCHANGED vpOthers

\* lines 49 and 88, back in the caller: line 38 of apply_musical_processing
\* or the one who called pitch_shift_to_melody
PSM_Return ==
    /\ vp_pc = "return"
    /\ IF vp_entry = "pitch_shift_to_melody"
       THEN /\ vp_result' = pitched_audio
            /\ vp_pc' = "done"
       ELSE /\ vp_pc' = "effects"
            /\ UNCHANGED vp_result
    /\ UNCHANGED <<vp_entry, speech_audio, vp_melody, vp_phrases, vp_audio,
                   pitched_audio, vp_i, last_shift, vp_steps>>
    /\ UNCHANGED vpOthers

\* lines 41-44 with add_vocal_effects, lines 133-157
AMP_Effects ==
    /\ vp_pc = "effects"
    /\ \E formants_ok \in BOOLEAN, breath \in BreathOutcomes :
          /\ vp_result' = add_vocal_effects(pitched_audio, formants_ok, breath)
          /\ vp_steps' = vp_steps \cup {"effects"}
                \cup (IF Peak(VocalEffects(pitched_audio, formants_ok, breath))
                         > 0
                      THEN {"normalize"} ELSE {})
    /\ vp_pc' = "done"
    /\ UNCHANGED <<vp_entry, speech_audio, vp_melody, vp_phrases, vp_audio,
                   pitched_audio, vp_i, last_shift>>
    /\ UNCHANGED vpOthers

\* lines 90-131, called on its own
PSS_Call ==
    /\ vp_pc = "segment_call"
    /\ \E resample_ok \in BOOLEAN :
          LET call == pitch_shift_segment(vp_audio, vp_melody[1], resample_ok)
          IN /\ last_shift' = call.log
             /\ vp_result' = call.out
    /\ vp_pc' = "done"
    /\ UNCHANGED <<vp_entry, speech_audio, vp_melody, vp_phrases, vp_audio,
                   pitched_audio, vp_i, vp_steps>>
    /\ UNCHANGED vpOthers

VP_Next ==
    \/ AMP_Stretch \/ PSM_Enter \/ PSM_Segment \/ PSM_LoopEnd \/ PSM_Return
    \/ AMP_Effects \/ PSS_Call

-----------------------------------------------------------------------------
(* MusicalArranger.generate_chord_progression *)

\* roman numerals, as their characters
RomanI == <<"I">>
RomanII == <<"i", "i">>
RomanIV == <<"I", "V">>
RomanV == <<"V">>
RomanVI == <<"v", "i">>

\* str.islower(): some cased character, and no upper-case one
IsLowerStr(str) ==
    /\ \E k \in 1..Len(str) : IsLower(str[k])
    /\ \A k \in 1..Len(str) : ~IsUpper(str[k])

\* lines 159-167: roman_map.get(roman, 0)
scale_degree(roman) ==
    IF roman = <<"I">> THEN 0
    ELSE IF roman = <<"i", "i">> THEN 1
    ELSE IF roman = <<"i", "i", "i">> THEN 2
    ELSE IF roman = <<"I", "V">> THEN 3
    ELSE IF roman = <<"V">> THEN 4
    ELSE IF roman = <<"v", "i">> THEN 5
    ELSE IF roman = <<"v", "i", "i">> THEN 6
    ELSE 0

scale_intervals == <<0, 2, 4, 5, 7, 9, 11>>

\* a frequency root * 2 ** (semitones / 12), kept as the pair
Pitch(root, semitones) == [root |-> root, semitones |-> semitones]

\* lines 156-187: root, third (minor for a lower-case numeral) and fifth
roman_to_chord_frequencies(roman, root) ==
    LET chord_root_interval == scale_intervals[scale_degree(roman) + 1]
        third_interval == IF IsLowerStr(roman) THEN 3 ELSE 4
        fifth_interval == 7
    IN << Pitch(root, chord_root_interval),
          Pitch(root, chord_root_interval + third_interval),
          Pitch(root, chord_root_interval + fifth_interval) >>

\* a plausible slip: the mood is not looked at
ProgressionIgnoringMood(style, mood) ==
    IF style = "pop" THEN <<RomanI, RomanV, RomanVI, RomanIV>>
    ELSE IF style = "ballad" THEN <<RomanI, RomanVI, RomanIV, RomanV>>
    ELSE IF style = "jazz" THEN <<RomanII, RomanV, RomanI, RomanVI>>
    ELSE <<RomanI, RomanIV, RomanV, RomanI>>

\* lines 130-146
Progression(style, mood) ==
    IF style = "pop"
    THEN (IF mood = "happy" THEN <<RomanI, RomanV, RomanVI, RomanIV>>
          ELSE <<RomanVI, RomanIV, RomanI, RomanV>>)
    ELSE IF style = "ballad" THEN <<RomanI, RomanVI, RomanIV, RomanV>>
    ELSE IF style = "jazz" THEN <<RomanII, RomanV, RomanI, RomanVI>>
    ELSE <<RomanI, RomanIV, RomanV, RomanI>>

\* the default root, C at 261.63 Hz
DefaultRoot == 26163

\* a plausible slip: the lowest entry, silent or negative ones included
RootOfUnfiltered(notes) ==
    IF notes = <<>> THEN DefaultRoot
    ELSE LET every == {notes[k] : k \in 1..Len(notes)}
         IN CHOOSE f \in every : \A g \in every : f <= g

\* lines 117-128, melodies given as frequencies
RootOf(notes) ==
    LET melody_notes == {notes[k] : k \in {j \in 1..Len(notes) : notes[j] > 0}}
    IN IF melody_notes = {} THEN DefaultRoot
       ELSE CHOOSE f \in melody_notes : \A g \in melody_notes : f <= g

\* the styles, moods and melodies of the callers; "folk" and "angry" are
\* values the code has no branch for
ChordStyles == Styles \cup {"folk"}
ChordMoods == Moods \cup {"angry"}
ChordNotes == {-26163, 0, 19600, 26163}
ChordMelodies == UNION { [1..n -> ChordNotes] : n \in 0..MaxNotes }

CP_Idle ==
    /\ cp_pc = "idle"
    /\ cp_melody = <<>>
    /\ cp_style = "pop"
    /\ cp_mood = "happy"
    /\ root_freq = 0
    /\ progression = <<>>
    /\ chords = <<>>

CP_Init ==
    /\ cp_pc = "call"
    /\ cp_melody \in ChordMelodies
    /\ cp_style \in ChordStyles
    /\ cp_mood \in ChordMoods
    /\ root_freq = 0
    /\ progression = <<>>
    /\ chords = <<>>

\* lines 117-149
CP_Progression ==
    /\ cp_pc = "call"
    /\ root_freq' = RootOf(cp_melody)
    /\ progression' = Progression(cp_style, cp_mood)
    /\ chords' = <<>>
    /\ cp_pc' = "loop"
    /\ UNCHANGED <<cp_melody, cp_style, cp_mood>>
    /\ UNCHANGED cpOthers

\* lines 150-152: one pass of the loop
CP_Chord ==
    /\ cp_pc = "loop"
    /\ Len(chords) < Len(progression)
    /\ chords' = Append(chords,
                        roman_to_chord_frequencies(
                            progression[Len(chords) + 1], root_freq))
    /\ UNCHANGED <<cp_pc, cp_melody, cp_style, cp_mood, root_freq,
                   progression>>
    /\ UNCHANGED cpOthers

\* line 154
CP_Return ==
    /\ cp_pc = "loop"
    /\ Len(chords) = Len(progression)
    /\ cp_pc' = "done"
    /\ UNCHANGED <<cp_melody, cp_style, cp_mood, root_freq, progression,
                   chords>>
    /\ UNCHANGED cpOthers

CP_Next == CP_Progression \/ CP_Chord \/ CP_Return

-----------------------------------------------------------------------------
(* TextAnalyzer, one call at a time *)

\* the words count_syllables and get_word_emphasis are called with: every
\* spelling of up to MaxWordLen characters over a vowel, the letter e, a
\* consonant and a capital, the content words, and some longer words
WordAlphabet == {"a", "e", "l", "E"}
SpelledWords == UNION { [1..n -> WordAlphabet] : n \in 0..MaxWordLen }
LongerWords ==
    { <<"h","e","l","l","o">>, <<"t","h","e">>, <<"s","u","n","s","e","t">>,
      <<"s","i","n","g","i","n","g">>,
      <<"e","v","e","r","y","b","o","d","y">>, <<"W","o","r","l","d">> }
WordInputs == SpelledWords \cup emphasis_words \cup LongerWords

\* the lyrics analyze_text_phrasing is called with
HelloWorldPlain == <<"H","e","l","l","o"," ","w","o","r","l","d">>
PhrasingTexts == Lyrics \cup {HelloWorldPlain}

TA_Idle ==
    /\ ta_entry = "none"
    /\ ta_pc = "idle"
    /\ ta_word = <<>>
    /\ ta_syllables = 0
    /\ ta_emphasis = "none"
    /\ ta_text = <<>>
    /\ ta_words = <<>>
    /\ ta_i = 0
    /\ ta_phrases = <<>>
    /\ ta_current_phrase = <<>>
    /\ ta_syllable_count = 0

TA_Init ==
    /\ ta_entry \in {"count_syllables", "get_word_emphasis",
                     "analyze_text_phrasing"}
    /\ ta_pc = "call"
    /\ IF ta_entry = "analyze_text_phrasing"
       THEN ta_word = <<>> /\ ta_text \in PhrasingTexts
       ELSE ta_word \in WordInputs /\ ta_text = <<>>
    /\ ta_syllables = 0
    /\ ta_emphasis = "none"
    /\ ta_words = <<>>
    /\ ta_i = 0
    /\ ta_phrases = <<>>
    /\ ta_current_phrase = <<>>
    /\ ta_syllable_count = 0

\* lines 47-64
TA_CountSyllables ==
    /\ ta_pc = "call"
    /\ ta_entry = "count_syllables"
    /\ ta_syllables' = count_syllables(ta_word)
    /\ ta_pc' = "done"
    /\ UNCHANGED <<ta_entry, ta_word, ta_emphasis, ta_text, ta_words, ta_i,
                   ta_phrases, ta_current_phrase, ta_syllable_count>>
    /\ UNCHANGED taOthers

\* lines 66-74
TA_WordEmphasis ==
    /\ ta_pc = "call"
    /\ ta_entry = "get_word_emphasis"
    /\ ta_emphasis' = get_word_emphasis(ta_word)
    /\ ta_pc' = "done"
    /\ UNCHANGED <<ta_entry, ta_word, ta_syllables, ta_text, ta_words, ta_i,
                   ta_phrases, ta_current_phrase, ta_syllable_count>>
    /\ UNCHANGED taOthers

\* lines 20-24
TA_Tokenize ==
    /\ ta_pc = "call"
    /\ ta_entry = "analyze_text_phrasing"
    /\ ta_words' = FindAllWords(StrLower(ta_text), 1, <<>>)
    /\ ta_phrases' = <<>>
    /\ ta_current_phrase' = <<>>
    /\ ta_syllable_count' = 0
    /\ ta_i' = 0
    /\ ta_pc' = "loop"
    /\ UNCHANGED <<ta_entry, ta_word, ta_syllables, ta_emphasis, ta_text>>
    /\ UNCHANGED taOthers

\* lines 26-40: one pass of the loop
TA_Word ==
    /\ ta_pc = "loop"
    /\ ta_i < Len(ta_words)
    /\ LET word == ta_words[ta_i + 1]
           unit == WordUnit(word)
           phrase == Append(ta_current_phrase, unit)
           count == ta_syllable_count + unit.syllables
       IN IF ShouldFlush(count, word)
          THEN /\ ta_phrases' = Append(ta_phrases, phrase)
               /\ ta_current_phrase' = <<>>
               /\ ta_syllable_count' = 0
          ELSE /\ ta_current_phrase' = phrase
               /\ ta_syllable_count' = count
               /\ UNCHANGED ta_phrases
    /\ ta_i' = ta_i + 1
    /\ UNCHANGED <<ta_entry, ta_pc, ta_word, ta_syllables, ta_emphasis,
                   ta_text, ta_words>>
    /\ UNCHANGED taOthers

\* lines 42-45: the last partial phrase, and the return
TA_Return ==
    /\ ta_pc = "loop"
    /\ ta_i = Len(ta_words)
    /\ ta_phrases' = IF ta_current_phrase # <<>>
                     THEN Append(ta_phrases, ta_current_phrase)
                     ELSE ta_phrases
    /\ ta_pc' = "done"
    /\ UNCHANGED <<ta_entry, ta_word, ta_syllables, ta_emphasis, ta_text,
                   ta_words, ta_i, ta_current_phrase, ta_syllable_count>>
    /\ UNCHANGED taOthers

TA_Next ==
    \/ TA_CountSyllables \/ TA_WordEmphasis \/ TA_Tokenize \/ TA_Word
    \/ TA_Return

-----------------------------------------------------------------------------
(* The accompaniment: generate_musical_accompaniment, create_chord_track,   *)
(* create_bass_track, create_drum_track and the drum sounds.  A track is    *)
(* kept by what wrote each sample, not by the sample's value.               *)

\* the sample rate of the accompaniment model and the longest duration
AccompanimentRate == 62
MaxHalfSeconds == 6

\* AudioProcessor (docker/coqui-tts) and MusicalTTSSinger (huggingface)
Implementations == {"docker", "hf"}

\* int(duration * self.sample_rate), duration in half seconds
num_samples(duration) == (duration * AccompanimentRate) \div 2

\* create_chord_track lines 246-247: int(duration / len(chords) * rate)
chord_samples(duration, n_chords) ==
    (duration * AccompanimentRate) \div (2 * n_chords)

\* a plausible slip: the track is as long as the chords it holds
create_chord_track_of_chords(n_chords, duration) ==
    LET ns == n_chords * chord_samples(duration, n_chords)
        cs == chord_samples(duration, n_chords)
    IN [k \in 1..ns |-> (k - 1) \div cs + 1]

\* create_chord_track, lines 240-279: chord i + 1 fills
\* [i * chord_samples, min((i + 1) * chord_samples, num_samples))
create_chord_track(n_chords, duration) ==
    LET ns == num_samples(duration)
        cs == chord_samples(duration, n_chords)
        RECURSIVE Loop(_, _)
        Loop(track, i) ==
            IF i = n_chords THEN track
            ELSE LET start_sample == i * cs
                     end_sample == Min((i + 1) * cs, ns)
                     chord_length == end_sample - start_sample
                     chord_sound == [j \in 1..chord_length |-> i + 1]
                 IN IF chord_length <= 0 THEN Loop(track, i + 1)
                    ELSE Loop(WriteAt(track, start_sample, chord_sound),
                              i + 1)
    IN Loop(Zeros(ns), 0)

\* create_pop_bass_pattern, lines 336-364: four beats over the chord
create_pop_bass_pattern(length) ==
    LET RECURSIVE Beats(_, _)
        Beats(bass_line, beat) ==
            IF beat = 4 THEN bass_line
            ELSE LET beat_start == (beat * length) \div 4
                     beat_end == ((beat + 1) * length) \div 4
                     beat_length == beat_end - beat_start
                 IN IF beat_length > 0
                    THEN Beats(WriteAt(bass_line, beat_start,
                                       [j \in 1..beat_length |-> beat + 1]),
                               beat + 1)
                    ELSE Beats(bass_line, beat + 1)
    IN Beats(Zeros(length), 0)

\* create_ballad_bass_pattern and create_simple_bass_pattern, lines
\* 366-395: one sustained note over the chord
create_sustained_bass_pattern(length) == [j \in 1..length |-> 1]

\* create_bass_track, lines 305-334
create_bass_track(n_chords, duration, style) ==
    LET ns == num_samples(duration)
        cs == chord_samples(duration, n_chords)
        RECURSIVE Loop(_, _)
        Loop(track, i) ==
            IF i = n_chords THEN track
            ELSE LET start_sample == i * cs
                     end_sample == Min((i + 1) * cs, ns)
                     chord_length == end_sample - start_sample
                     bass_pattern ==
                         IF style = "pop"
                         THEN create_pop_bass_pattern(chord_length)
                         ELSE create_sustained_bass_pattern(chord_length)
                 IN IF chord_length <= 0 THEN Loop(track, i + 1)
                    ELSE Loop(WriteAt(track, start_sample,
                                      [j \in 1..chord_length |->
                                          (i + 1) * 10 + bass_pattern[j]]),
                              i + 1)
    IN Loop(Zeros(ns), 0)

\* create_drum_track lines 401-407
bpm(style) ==
    IF style = "ballad" THEN 70 ELSE IF style = "pop" THEN 120 ELSE 100

\* lines 410-412: int(beat_duration * self.sample_rate)
beat_samples(style) == (60 * AccompanimentRate) \div bpm(style)

\* line 414: int(duration * beats_per_second), duration in half seconds
num_beats(duration, style) == (duration * bpm(style)) \div 120

\* create_kick_sound, lines 437-460: int(0.1 * sample_rate) samples
create_kick_sound == AccompanimentRate \div 10

\* len(np.diff(x)) for len(x) = n
DiffLen(n) == IF n > 0 THEN n - 1 ELSE 0

\* len(t[:-1]) for len(t) = n
AllButLastLen(n) == IF n > 0 THEN n - 1 ELSE 0

NoHihat ==
    [called |-> FALSE, samples |-> 0, noise |-> 0, envelope |-> 0,
     raised |-> FALSE]

\* create_hihat_sound: audio_processing.py lines 462-479 ("docker") and
\* musical_tts_singing.py lines 794-811 ("hf").  noise is the length of the
\* first-differenced noise, envelope that of the decay envelope; hihat *=
\* envelope raises unless the envelope is as long or has one sample
create_hihat_sound(impl) ==
    LET samples == AccompanimentRate \div 20
        noise == DiffLen(1 + samples)
        envelope == IF impl = "docker" THEN Min(samples, noise)
                    ELSE AllButLastLen(samples)
    IN [called |-> TRUE, samples |-> samples, noise |-> noise,
        envelope |-> envelope,
        raised |-> ~(envelope = noise \/ envelope = 1)]

\* drum_track[start:stop] += hit[:stop - start]
AddHit(track, start, stop, hit) ==
    [k \in 1..Len(track) |->
        IF k - 1 >= start /\ k - 1 < stop THEN track[k] \cup {hit}
        ELSE track[k]]

AccompanimentDurations == 0..MaxHalfSeconds

AC_Idle ==
    /\ ac_entry = "none"
    /\ ac_impl = "docker"
    /\ ac_pc = "idle"
    /\ ac_duration = 0
    /\ ac_style = "pop"
    /\ chord_track = <<>>
    /\ bass_track = <<>>
    /\ drum_track = <<>>
    /\ ac_beat = 0
    /\ ac_hits = <<>>
    /\ ac_hihat = NoHihat
    /\ ac_accompaniment = [length |-> 0, chords |-> 0, bass |-> 0,
                           drums |-> 0]

\* a call of generate_musical_accompaniment (AudioProcessor), or of
\* create_drum_track or create_hihat_sound of either implementation
AC_Init ==
    /\ ac_entry \in {"generate_musical_accompaniment", "create_drum_track",
                     "create_hihat_sound"}
    /\ ac_impl \in Implementations
    /\ ac_entry = "generate_musical_accompaniment" => ac_impl = "docker"
    /\ ac_duration \in AccompanimentDurations
    /\ ac_style \in Styles
    /\ ac_entry = "create_hihat_sound"
          => (ac_duration = 0 /\ ac_style = "pop")
    /\ ac_pc = (IF ac_entry = "generate_musical_accompaniment" THEN "chords"
                ELSE IF ac_entry = "create_drum_track" THEN "drums_call"
                ELSE "hihat_call")
    /\ chord_track = <<>>
    /\ bass_track = <<>>
    /\ drum_track = <<>>
    /\ ac_beat = 0
    /\ ac_hits = <<>>
    /\ ac_hihat = NoHihat
    /\ ac_accompaniment = [length |-> 0, chords |-> 0, bass |-> 0,
                           drums |-> 0]

\* generate_musical_accompaniment lines 217-223: the progression of the
\* style (four chords whatever the mood) and its chord track
AC_Chords ==
    /\ ac_pc = "chords"
    /\ chord_track' = create_chord_track(Len(Progression(ac_style, "happy")),
                                         ac_duration)
    /\ ac_pc' = "bass"
    /\ UNCHANGED <<ac_entry, ac_impl, ac_duration, ac_style, bass_track,
                   drum_track, ac_beat, ac_hits, ac_hihat, ac_accompaniment>>
    /\ UNCHANGED acOthers

\* line 224
AC_Bass ==
    /\ ac_pc = "bass"
    /\ bass_track' = create_bass_track(Len(Progression(ac_style, "happy")),
                                       ac_duration, ac_style)
    /\ ac_pc' = "drums_call"
    /\ UNCHANGED <<ac_entry, ac_impl, ac_duration, ac_style, chord_track,
                   drum_track, ac_beat, ac_hits, ac_hihat, ac_accompaniment>>
    /\ UNCHANGED acOthers

\* create_drum_track lines 399-414
AC_DrumsEnter ==
    /\ ac_pc = "drums_call"
    /\ drum_track' = [k \in 1..num_samples(ac_duration) |-> {}]
    /\ ac_beat' = 0
    /\ ac_pc' = "drums"
    /\ UNCHANGED <<ac_entry, ac_impl, ac_duration, ac_style, chord_track,
                   bass_track, ac_hits, ac_hihat, ac_accompaniment>>
    /\ UNCHANGED acOthers

\* lines 416-433: one pass of the loop over the beats
AC_Beat ==
    /\ ac_pc = "drums"
    /\ ac_beat < num_beats(ac_duration, ac_style)
    /\ LET beat_start == ac_beat * beat_samples(ac_style)
           ns == num_samples(ac_duration)
           kick_end == Min(beat_start + create_kick_sound, ns)
           hihat == create_hihat_sound(ac_impl)
           hihat_end == Min(beat_start + hihat.noise, ns)
       IN /\ beat_start < ns
          /\ IF ac_beat % 4 = 0
             THEN /\ drum_track' = AddHit(drum_track, beat_start, kick_end,
                                          <<"kick", ac_beat>>)
                  /\ ac_hits' = Append(ac_hits,
                                       [beat |-> ac_beat, kind |-> "kick",
                                        start |-> beat_start,
                                        stop |-> kick_end])
                  /\ ac_pc' = "drums"
                  /\ UNCHANGED ac_hihat
             ELSE IF ac_beat % 2 = 1
             THEN /\ ac_hihat' = hihat
                  /\ IF hihat.raised
                     THEN /\ ac_pc' = "raised"
                          /\ UNCHANGED <<drum_track, ac_hits>>
                     ELSE /\ drum_track' =
                               AddHit(drum_track, beat_start, hihat_end,
                                      <<"hihat", ac_beat>>)
                          /\ ac_hits' =
                               Append(ac_hits,
                                      [beat |-> ac_beat, kind |-> "hihat",
                                       start |-> beat_start,
                                       stop |-> hihat_end])
                          /\ ac_pc' = "drums"
             ELSE /\ ac_pc' = "drums"
                  /\ UNCHANGED <<drum_track, ac_hits, ac_hihat>>
    /\ ac_beat' = ac_beat + 1
    /\ UNCHANGED <<ac_entry, ac_impl, ac_duration, ac_style, chord_track,
                   bass_track, ac_accompaniment>>
    /\ UNCHANGED acOthers

\* lines 419-420 and 435: the loop is over, or left by the break
AC_DrumsReturn ==
    /\ ac_pc = "drums"
    /\ \/ ac_beat = num_beats(ac_duration, ac_style)
       \/ ac_beat * beat_samples(ac_style) >= num_samples(ac_duration)
    /\ ac_pc' = (IF ac_entry = "create_drum_track" THEN "done" ELSE "mix")
    /\ UNCHANGED <<ac_entry, ac_impl, ac_duration, ac_style, chord_track,
                   bass_track, drum_track, ac_beat, ac_hits, ac_hihat,
                   ac_accompaniment>>
    /\ UNCHANGED acOthers

\* generate_musical_accompaniment lines 227-238: a track goes in, at its
\* level (in 1/100), when it is num_samples long
AC_Mix ==
    /\ ac_pc = "mix"
    /\ LET ns == num_samples(ac_duration)
       IN ac_accompaniment' =
             [length |-> ns,
              chords |-> IF Len(chord_track) = ns THEN 30 ELSE 0,
              bass |-> IF Len(bass_track) = ns THEN 40 ELSE 0,
              drums |-> IF Len(drum_track) = ns THEN 20 ELSE 0]
    /\ ac_pc' = "done"
    /\ UNCHANGED <<ac_entry, ac_impl, ac_duration, ac_style, chord_track,
                   bass_track, drum_track, ac_beat, ac_hits, ac_hihat>>
    /\ UNCHANGED acOthers

\* create_hihat_sound called on its own
AC_Hihat ==
    /\ ac_pc = "hihat_call"
    /\ ac_hihat' = create_hihat_sound(ac_impl)
    /\ ac_pc' = (IF create_hihat_sound(ac_impl).raised THEN "raised"
                 ELSE "done")
    /\ UNCHANGED <<ac_entry, ac_impl, ac_duration, ac_style, chord_track,
                   bass_track, drum_track, ac_beat, ac_hits,
                   ac_accompaniment>>
    /\ UNCHANGED acOthers

AC_Next ==
    \/ AC_Chords \/ AC_Bass \/ AC_DrumsEnter \/ AC_Beat \/ AC_DrumsReturn
    \/ AC_Mix \/ AC_Hihat

-----------------------------------------------------------------------------
(* adjust_melody_to_syllables: TextAnalyzer (text_analysis.py lines         *)
(* 175-188, "docker") and MusicalTTSSinger (musical_tts_singing.py lines    *)
(* 1451-1470, "hf")                                                         *)

\* the largest syllable count asked for
MaxSyllableCount == 4

\* hf line 1464: note * (0.95 + 0.1 * np.random.random()), the factor in
\* 1/1000 at the ends and the middle of its range
VariationFactors == {950, 1000, 1049}

AdjustNotes == {26163, 44000}
AdjustMelodies == UNION { [1..n -> AdjustNotes] : n \in 0..MaxNotes }

AM_Idle ==
    /\ am_impl = "docker"
    /\ am_pc = "idle"
    /\ am_melody_notes = <<>>
    /\ am_syllable_count = 0
    /\ extended = <<>>
    /\ am_result = <<>>

AM_Init ==
    /\ am_impl \in Implementations
    /\ am_pc = "call"
    /\ am_melody_notes \in AdjustMelodies
    /\ am_syllable_count \in 0..MaxSyllableCount
    /\ extended = <<>>
    /\ am_result = <<>>

\* the notes one pass of the while loop appends: docker line 184 extends by
\* a prefix of melody_notes; hf lines 1459-1465 append a varied copy of each
\* note until the count is reached
ExtendBy(impl, notes, missing, factors) ==
    LET k == Min(Len(notes), missing)
    IN IF impl = "docker" THEN Take(notes, k)
       ELSE [j \in 1..k |-> DivTrunc(notes[j] * factors[j], 1000)]

\* lines 177-182 and 186-188: equal length, start of the extension, or trim
AM_Enter ==
    /\ am_pc = "call"
    /\ IF Len(am_melody_notes) = am_syllable_count
       THEN /\ am_result' = am_melody_notes
            /\ am_pc' = "done"
            /\ UNCHANGED extended
       ELSE IF Len(am_melody_notes) < am_syllable_count
       THEN /\ extended' = am_melody_notes
            /\ am_pc' = "extend"
            /\ UNCHANGED am_result
       ELSE /\ am_result' = Take(am_melody_notes, am_syllable_count)
            /\ am_pc' = "done"
            /\ UNCHANGED extended
    /\ UNCHANGED <<am_impl, am_melody_notes, am_syllable_count>>
    /\ UNCHANGED amOthers

\* lines 183-184: one pass of the while loop
AM_Extend ==
    /\ am_pc = "extend"
    /\ Len(extended) < am_syllable_count
    /\ \E factors \in [1..Len(am_melody_notes) -> VariationFactors] :
          extended' = extended \o ExtendBy(am_impl, am_melody_notes,
                                           am_syllable_count - Len(extended),
                                           factors)
    /\ UNCHANGED <<am_impl, am_pc, am_melody_notes, am_syllable_count,
                   am_result>>
    /\ UNCHANGED amOthers

\* line 185
AM_Return ==
    /\ am_pc = "extend"
    /\ Len(extended) >= am_syllable_count
    /\ am_result' = Take(extended, am_syllable_count)
    /\ am_pc' = "done"
    /\ UNCHANGED <<am_impl, am_melody_notes, am_syllable_count, extended>>
    /\ UNCHANGED amOthers

AM_Next == AM_Enter \/ AM_Extend \/ AM_Return

\* syllables of the phrases before phrase number n (0-based)
SyllablesBefore(phrases, n) ==
    SumSeq([p \in 1..n |-> PhraseLength(phrases[p])])

-----------------------------------------------------------------------------
(* Specifications *)

\* one call of generate_melody
MelodyInit == GM_Init /\ Svc_Idle /\ MX_Idle /\ VP_Idle /\ CP_Idle
    /\ TA_Idle /\ AC_Idle /\ AM_Idle
MelodyNext == GM_Next
SpecMelody == MelodyInit /\ [][MelodyNext]_vars

\* the threaded server (app.run of Flask's development server): requests
\* for full arrangements, any number of them in flight at once
ServiceInit == Svc_InitFree /\ GM_Idle /\ MX_Idle /\ VP_Idle /\ CP_Idle
    /\ TA_Idle /\ AC_Idle /\ AM_Idle
ServiceNext == \E r \in Requests : ReceiveSong(r) \/ Serve(r)
SpecService == ServiceInit /\ [][ServiceNext]_vars

\* one request served alone, on any host, with any lyrics
SingerInit == Svc_Init /\ GM_Idle /\ MX_Idle /\ VP_Idle /\ CP_Idle
    /\ TA_Idle /\ AC_Idle /\ AM_Idle
SingerNext == Receive(1) \/ Serve(1)
SpecSinger == SingerInit /\ [][SingerNext]_vars

\* one call of the mixer, with any levels the requests may have left
MixInit ==
    /\ MX_Init
    /\ GM_Idle
    /\ VP_Idle
    /\ CP_Idle
    /\ TA_Idle /\ AC_Idle /\ AM_Idle
    /\ rq = [r \in Requests |-> IdleRequest]
    /\ env \in {e \in Envs : \A f \in DOMAIN e : ~e[f]}
    /\ vocal_mix_level \in MixLevels
    /\ music_mix_level \in MixLevels
MixNext == MX_Next
SpecMix == MixInit /\ [][MixNext]_vars

\* one call into the vocal processing
VocalInit == VP_Init /\ GM_Idle /\ Svc_Idle /\ MX_Idle /\ CP_Idle
    /\ TA_Idle /\ AC_Idle /\ AM_Idle
VocalNext == VP_Next
SpecVocal == VocalInit /\ [][VocalNext]_vars

\* one call of generate_chord_progression
ChordInit == CP_Init /\ GM_Idle /\ Svc_Idle /\ MX_Idle /\ VP_Idle
    /\ TA_Idle /\ AC_Idle /\ AM_Idle
ChordNext == CP_Next
SpecChord == ChordInit /\ [][ChordNext]_vars

\* one call of a TextAnalyzer method
TextInit ==
    TA_Init /\ GM_Idle /\ Svc_Idle /\ MX_Idle /\ VP_Idle /\ CP_Idle
    /\ AC_Idle /\ AM_Idle
TextNext == TA_Next
SpecText == TextInit /\ [][TextNext]_vars

\* one call into the accompaniment
AccompanimentInit ==
    AC_Init /\ GM_Idle /\ Svc_Idle /\ MX_Idle /\ VP_Idle /\ CP_Idle
    /\ TA_Idle /\ AM_Idle
AccompanimentNext == AC_Next
SpecAccompaniment == AccompanimentInit /\ [][AccompanimentNext]_vars

\* one call of adjust_melody_to_syllables; the interpreter keeps running
\* the call, so a step that can be taken is taken
AdjustInit ==
    AM_Init /\ GM_Idle /\ Svc_Idle /\ MX_Idle /\ VP_Idle /\ CP_Idle
    /\ TA_Idle /\ AC_Idle
AdjustNext == AM_Next
SpecAdjust == AdjustInit /\ [][AdjustNext]_vars
SpecAdjustLive == SpecAdjust /\ WF_vars(AdjustNext)

-----------------------------------------------------------------------------
(* Claims *)

\* C1: generate_melody emits one note per syllable, in phrase/word order:
\* while it runs, the finished phrases have contributed exactly their
\* syllable counts to melody and the phrase in progress holds one note per
\* syllable processed; the phrase-end resolution neither adds nor removes a
\* note; the returned melody has as many notes as the phrases have
\* syllables.
C1_MelodyLength ==
    /\ Len(melody) = SyllablesBefore(gm_phrases, phrase_idx)
    /\ Len(phrase_melody) = syllable_count
    /\ gm_pc = "done" => Len(melody) = TotalSyllables(gm_phrases)

\* a melody returned for a lyric of two phrases, the first one resolved
C1_Witness ==
    /\ gm_pc = "done"
    /\ Len(gm_phrases) >= 2
    /\ Len(melody) >= 3

\* C2: under any interleaving of concurrent requests, the levels the mixer
\* reads while mixing a request are the levels that request supplied.
C2_MixedWithOwnLevels ==
    \A r \in Requests :
        /\ rq[r].used_vocal # -1 => rq[r].used_vocal = rq[r].vocal_volume
        /\ rq[r].used_music # -1 => rq[r].used_music = rq[r].music_volume

\* priority of a speech source in generate_speech
Rank(p) ==
    IF p = "gtts" THEN 1 ELSE IF p = "edge" THEN 2 ELSE IF p = "say" THEN 3
    ELSE IF p = "espeak" THEN 4 ELSE 5

\* whether the host offers the provider
Available(e, p) ==
    IF p = "gtts" THEN e.gtts_available
    ELSE IF p = "edge" THEN e.edge_tts_available
    ELSE IF p = "say" THEN e.say_installed
    ELSE e.espeak_installed

ProviderSet == {Providers[i] : i \in 1..Len(Providers)}

Attempted(rec, p) == \E i \in 1..Len(rec.attempts) : rec.attempts[i] = p

\* C3: generate_speech('auto') tries gTTS, Edge TTS, say, espeak in that
\* order and returns the output of the first that succeeds; a source is
\* attempted only after every higher-priority available provider has been
\* attempted (and failed), so the phonetic approximation is used only after
\* every available provider has been attempted.
C3_FallbackOrder ==
    \A r \in Requests :
        LET a == rq[r].attempts
        IN /\ \A i, j \in 1..Len(a) : i < j => Rank(a[i]) < Rank(a[j])
           /\ rq[r].speech_source # "none"
                  => a[Len(a)] = rq[r].speech_source
           /\ \A i \in 1..Len(a) : \A q \in ProviderSet :
                  (Rank(q) < Rank(a[i]) /\ Available(env, q))
                      => Attempted(rq[r], q)

\* C4: generate_phonetic_speech returns audio for every text the boundary
\* accepts (every non-empty string), never raising.
C4_PhoneticNeverRaises ==
    \A r \in Requests :
        rq[r].text # <<>> => rq[r].phonetic # "ZeroDivisionError"

AudioResults == {"mix", "vocals", "effects", "basic"}

\* C5: for lyrics with at least one word, create_singing_voice returns audio
\* whatever fails on the way (the free pipeline falls back to
\* create_harmonic_singing, that one to create_basic_vocal_singing), and the
\* request ends with status 200.
C5_AlwaysSings ==
    \A r \in Requests :
        (/\ rq[r].pc = "done"
         /\ rq[r].include_music
         /\ Len(text_split(rq[r].text)) >= 1)
        => /\ rq[r].status = 200
           /\ rq[r].result \in AudioResults
           /\ rq[r].result = "basic"
                  => rq[r].fallbacks = <<"harmonic", "basic">>
           /\ rq[r].result = "effects" => rq[r].fallbacks = <<"harmonic">>

\* a worded request answered by the last fallback after the free pipeline
\* and the singing effects both failed
C5_Witness ==
    \E r \in Requests :
        /\ rq[r].pc = "done"
        /\ rq[r].include_music
        /\ Len(text_split(rq[r].text)) >= 1
        /\ Attempted(rq[r], "gtts")
        /\ rq[r].fallbacks = <<"harmonic", "basic">>
        /\ rq[r].status = 200

\* C6: whatever create_singing_voice returns is the output of
\* mix_vocal_and_accompaniment, so a response with includes_music true and a
\* "..._with_accompaniment" label always carries mixed audio.
C6_MusicMeansMixed ==
    \A r \in Requests :
        (rq[r].pc = "done" /\ rq[r].status = 200 /\ rq[r].include_music)
        => rq[r].result = "mix"

\* C7: for inputs of nonzero length the mixer returns exactly
\* min(len(vocal), len(accompaniment)) samples, whichever of the
\* enhancement, filtering and compression steps raised.
C7_MixLength ==
    (Len(vocal_audio) > 0 /\ Len(accompaniment) > 0)
    => /\ mx_pc # "raised"
       /\ mx_pc = "done"
              => Len(mixed) = Min(Len(vocal_audio), Len(accompaniment))

\* a finished mix of inputs of different lengths in which a sub-step raised
C7_Witness ==
    /\ mx_pc = "done"
    /\ Len(vocal_audio) > Len(accompaniment)
    /\ Len(accompaniment) > 0
    /\ "compress" \in mx_failed
    /\ "enhance" \notin mx_failed

\* the weighted sum the mixer formed (line 519), recomputed from its locals
C8_WeightedMix ==
    WeightedSum(enhanced_vocals, vocal_mix_level,
                filtered_accompaniment, music_mix_level)

\* C8: the returned mix peaks at no more than 0.9 when the weighted mix is
\* not silent; a silent weighted mix skips the normalization and is returned
\* as silence.
C8_MixPeak ==
    mx_pc = "done"
    => /\ Peak(mixed) <= MixPeak
       /\ ~AllZero(C8_WeightedMix) => (mx_normalized /\ Peak(mixed) > 0)
       /\ AllZero(C8_WeightedMix) => (~mx_normalized /\ AllZero(mixed))

\* a loud mix (above the compression threshold, compressed) normalized down
C8_Witness ==
    /\ mx_pc = "done"
    /\ mx_normalized
    /\ Peak(C8_WeightedMix) > CompressionThreshold
    /\ "compress" \notin mx_failed
    /\ Peak(mixed) = MixPeak

\* C9: whenever pitch_shift_segment computes a shift ratio it is
\* target_freq / 200 clamped into [0.7, 1.5], whatever the target frequency
\* (zero, negative, huge), and the resampled length is the segment length
\* divided by that ratio.
C9_RatioClamped ==
    (last_shift.called /\ last_shift.length > 0)
    => /\ 7 * base_freq <= 10 * last_shift.ratio
       /\ 10 * last_shift.ratio <= 15 * base_freq
       /\ (10 * last_shift.target <= 7 * base_freq)
              => 10 * last_shift.ratio = 7 * base_freq
       /\ (10 * last_shift.target >= 15 * base_freq)
              => 10 * last_shift.ratio = 15 * base_freq
       /\ (7 * base_freq < 10 * last_shift.target
              /\ 10 * last_shift.target < 15 * base_freq)
              => last_shift.ratio = last_shift.target
       /\ last_shift.new_length
              = (last_shift.length * base_freq) \div last_shift.ratio
       /\ last_shift.resampled <=> last_shift.new_length > 0

\* a segment resampled for a target of 0 Hz, at the lower clamp
C9_Witness ==
    /\ last_shift.resampled
    /\ last_shift.target = 0
    /\ last_shift.ratio = RatioMin
    /\ last_shift.new_length > last_shift.length

\* C10: apply_musical_processing with an empty melody or a zero-length
\* speech buffer, and pitch_shift_to_melody with an empty melody, return
\* the buffer they were given; no stretch, shift, effect or normalization
\* has run.
C10_EmptyReturnsInput ==
    (/\ vp_pc = "done"
     /\ \/ Len(vp_melody) = 0
        \/ (vp_entry = "apply_musical_processing" /\ Len(speech_audio) = 0))
    => /\ vp_result = speech_audio
       /\ vp_steps = {}

\* apply_musical_processing returned for a non-empty speech buffer and an
\* empty melody, with phrases that do hold syllables
C10_Witness ==
    /\ vp_pc = "done"
    /\ vp_entry = "apply_musical_processing"
    /\ Len(vp_melody) = 0
    /\ Len(speech_audio) > 0
    /\ vp_phrases # <<>>

\* the numerals the chords were built from: the semitone of each chord's
\* root above the key's root, and whether its third is minor
C11_Numeral(chord) ==
    <<chord[1].semitones, chord[2].semitones - chord[1].semitones = 3>>

\* C11: generate_chord_progression returns 4 chords of 3 frequencies each:
\* pop/happy I-V-vi-IV, pop with another mood vi-IV-I-V, ballad I-vi-IV-V,
\* jazz ii-V-I-vi, any other style I-IV-V-I; outside pop the mood plays no
\* part.
C11_ChordTable ==
    cp_pc = "done"
    => /\ Len(chords) = 4
       /\ \A k \in 1..Len(chords) :
             /\ Len(chords[k]) = 3
             /\ chords[k][3].semitones - chords[k][1].semitones = 7
             /\ \A j \in 1..3 : chords[k][j].root = root_freq
       /\ LET numerals == [k \in 1..Len(chords) |-> C11_Numeral(chords[k])]
              I == <<0, FALSE>>
              ii == <<2, TRUE>>
              IV == <<5, FALSE>>
              V == <<7, FALSE>>
              vi == <<9, TRUE>>
          IN numerals =
               IF cp_style = "pop" /\ cp_mood = "happy" THEN <<I, V, vi, IV>>
               ELSE IF cp_style = "pop" THEN <<vi, IV, I, V>>
               ELSE IF cp_style = "ballad" THEN <<I, vi, IV, V>>
               ELSE IF cp_style = "jazz" THEN <<ii, V, I, vi>>
               ELSE <<I, IV, V, I>>

\* a progression returned for pop with a mood the code has no branch for
C11_Witness ==
    /\ cp_pc = "done"
    /\ cp_style = "pop"
    /\ cp_mood = "angry"
    /\ Len(chords) = 4
    /\ Len(cp_melody) > 0

\* the maximal runs of vowels in a word: the positions where one starts
C12_VowelRuns(word) ==
    Cardinality({k \in 1..Len(word) :
                    /\ word[k] \in {"a", "e", "i", "o", "u", "y"}
                    /\ (k = 1 \/ word[k - 1] \notin
                                     {"a", "e", "i", "o", "u", "y"})})

\* C12: count_syllables returns max(1, g - s), g the number of maximal
\* vowel runs of the lower-cased word, s = 1 when it ends in e and g > 1;
\* so at least 1, 2 for hello and 1 for world.
C12_SyllableCount ==
    (ta_pc = "done" /\ ta_entry = "count_syllables")
    => LET word == [k \in 1..Len(ta_word) |->
                       IF ta_word[k] = "E" THEN "e"
                       ELSE IF ta_word[k] = "W" THEN "w" ELSE ta_word[k]]
           g == C12_VowelRuns(word)
           ends_in_e == Len(word) > 0 /\ word[Len(word)] = "e"
           s == IF ends_in_e /\ g > 1 THEN 1 ELSE 0
       IN /\ ta_syllables = (IF g - s > 1 THEN g - s ELSE 1)
          /\ ta_syllables >= 1
          /\ ta_word = <<"h","e","l","l","o">> => ta_syllables = 2
          /\ ta_word = <<"w","o","r","l","d">> => ta_syllables = 1

\* a count for a word of two vowel runs ending in a silent e
C12_Witness ==
    /\ ta_pc = "done"
    /\ ta_entry = "count_syllables"
    /\ ta_word = <<"a", "l", "e">>
    /\ ta_syllables = 1

\* C13: get_word_emphasis is 'high' exactly for a content word or a word
\* of more than 6 characters, 'medium' exactly for any other word of more
\* than 3 characters, 'low' otherwise; a content word is 'high' whatever
\* its length.
C13_Emphasis ==
    (ta_pc = "done" /\ ta_entry = "get_word_emphasis")
    => LET content == ta_word \in emphasis_words
           high == content \/ Len(ta_word) > 6
           medium == ~high /\ Len(ta_word) > 3
       IN /\ ta_emphasis = "high" <=> high
          /\ ta_emphasis = "medium" <=> medium
          /\ ta_emphasis = "low" <=> (~high /\ ~medium)
          /\ content => ta_emphasis = "high"

\* a content word of four characters, which length alone would make medium
C13_Witness ==
    /\ ta_pc = "done"
    /\ ta_entry = "get_word_emphasis"
    /\ ta_word = <<"l","o","v","e">>
    /\ ta_emphasis = "high"

\* C14 as stated: 'Hello world' gives one phrase, {hello, 2, medium} then
\* {world, 1, medium}.
C14_HelloWorldMedium ==
    (ta_pc = "done" /\ ta_text = HelloWorldPlain)
    => ta_phrases =
         << << [word |-> <<"h","e","l","l","o">>, syllables |-> 2,
                emphasis |-> "medium"],
               [word |-> <<"w","o","r","l","d">>, syllables |-> 1,
                emphasis |-> "medium"] >> >>

\* C14, amended: 'Hello world' gives one phrase, {hello, 2, medium} then
\* {world, 1, high}: world is one of the content words.
C14_HelloWorldHigh ==
    (ta_pc = "done" /\ ta_text = HelloWorldPlain)
    => ta_phrases =
         << << [word |-> <<"h","e","l","l","o">>, syllables |-> 2,
                emphasis |-> "medium"],
               [word |-> <<"w","o","r","l","d">>, syllables |-> 1,
                emphasis |-> "high"] >> >>

\* the phrasing of 'Hello world' has returned
C14_Witness ==
    /\ ta_pc = "done"
    /\ ta_entry = "analyze_text_phrasing"
    /\ ta_text = HelloWorldPlain
    /\ Len(ta_phrases) = 1
    /\ Len(ta_phrases[1]) = 2

\* the words of a phrase, in order
C15_Words(phrase) == [k \in 1..Len(phrase) |-> phrase[k].word]

\* the syllables of the first n word units of a phrase
C15_Syllables(phrase, n) ==
    SumSeq([k \in 1..n |-> phrase[k].syllables])

\* whether a phrase is to be closed after its n-th word
C15_ClosesAt(phrase, n) ==
    \/ C15_Syllables(phrase, n) >= 8
    \/ phrase[n].word \in { <<"a","n","d">>, <<"b","u","t">>, <<"s","o">>,
                            <<"t","h","e","n">> }

\* C15: the phrases partition the lower-case word tokens in order; each
\* closed phrase is non-empty and ends at the first word where its
\* syllables reach 8 or the word is and/but/so/then; the accumulator
\* restarts from 0 after each closing; what is left at the end is closed as
\* a last phrase.
C15_Partition ==
    ta_pc \in {"loop", "done"}
    => LET open == IF ta_pc = "loop" THEN ta_current_phrase ELSE <<>>
           last_partial == /\ ta_pc = "done"
                           /\ ta_current_phrase # <<>>
       IN /\ Flatten([p \in 1..Len(ta_phrases) |-> C15_Words(ta_phrases[p])])
                \o C15_Words(open)
             = SubSeq(ta_words, 1, ta_i)
          /\ \A p \in 1..Len(ta_phrases) :
                /\ ta_phrases[p] # <<>>
                /\ \A n \in 1..(Len(ta_phrases[p]) - 1) :
                      ~C15_ClosesAt(ta_phrases[p], n)
                /\ (p < Len(ta_phrases) \/ ~last_partial)
                      => C15_ClosesAt(ta_phrases[p], Len(ta_phrases[p]))
          /\ \A n \in 1..Len(ta_current_phrase) :
                ~C15_ClosesAt(ta_current_phrase, n)
          /\ ta_syllable_count
                = C15_Syllables(ta_current_phrase, Len(ta_current_phrase))
          /\ ta_pc = "done"
                => /\ ta_i = Len(ta_words)
                   /\ last_partial
                         => ta_phrases[Len(ta_phrases)] = ta_current_phrase

\* a lyric closed by reaching exactly 8 syllables with its third word
C15_Witness ==
    /\ ta_pc = "done"
    /\ Len(ta_phrases) = 1
    /\ Len(ta_phrases[1]) = 3
    /\ C15_Syllables(ta_phrases[1], 3) = 8
    /\ ta_current_phrase = <<>>
    /\ ta_phrases[1][3].word \notin break_words

\* the syllables of the phrases handed to apply_musical_processing
C16_S == SumSeq([p \in 1..Len(vp_phrases) |->
                    SumSeq([k \in 1..Len(vp_phrases[p]) |->
                               vp_phrases[p][k].syllables])])

\* C16: for a non-empty speech buffer and a non-empty melody,
\* apply_musical_processing returns int(S * 0.4 * sample_rate) samples, S
\* the syllables of the phrases, however long the speech was; the stretched
\* buffer has that length and pitch shifting and the vocal effects keep it;
\* at 22050 Hz, 3 syllables give 26460 samples.
C16_TargetLength ==
    /\ (/\ vp_entry = "apply_musical_processing"
        /\ Len(speech_audio) > 0
        /\ Len(vp_melody) > 0)
       => LET target == (C16_S * 4 * ModelSampleRate) \div 10
          IN /\ vp_pc \in {"shift", "segment", "return", "effects"}
                    => Len(vp_audio) = target
             /\ vp_pc \in {"segment", "return", "effects"}
                    => Len(pitched_audio) = target
             /\ vp_pc = "done" => Len(vp_result) = target
    /\ target_samples_at(3, sample_rate) = 26460

\* a one-sample speech stretched to the six samples of three syllables
C16_Witness ==
    /\ vp_pc = "done"
    /\ vp_entry = "apply_musical_processing"
    /\ Len(speech_audio) = 1
    /\ Len(vp_melody) = 2
    /\ C16_S = 3
    /\ Len(vp_result) > Len(speech_audio)
    /\ "shift" \in vp_steps

\* the notes emitted so far, finished phrases first
C17_Emitted == melody \o phrase_melody

\* C17: in generate_melody the note index stays within the scale in every
\* state, every emitted frequency is a note of the style's scale, and every
\* emitted frequency, resolution notes included, lies in the style's vocal
\* range.
C17_IndexAndRange ==
    gm_pc # "idle"
    => LET notes == base_notes(gm_style)
           range == vocal_range(gm_style)
       IN /\ current_note_index >= 0
          /\ current_note_index <= Len(notes) - 1
          /\ \A k \in 1..Len(C17_Emitted) :
                /\ \E j \in 1..Len(notes) : notes[j] = C17_Emitted[k]
                /\ range[1] <= C17_Emitted[k]
                /\ C17_Emitted[k] <= range[2]

\* a high-emphasis syllable past the peak met the index at 0 (its target
\* was -1) and left it there
C17_Witness ==
    /\ gm_pc = "loop"
    /\ gm_last = "syllable"
    /\ gm_prev_index = 0
    /\ current_note_index = 0
    /\ gm_phrases[phrase_idx + 1][1].emphasis = "high"
    /\ Len(gm_phrases[phrase_idx + 1]) = 1
    /\ Len(melody) > 0

\* the position (0-based) of a frequency in the style's scale
C18_IndexOf(f) ==
    CHOOSE j \in 0..(Len(base_notes(gm_style)) - 1) :
        base_notes(gm_style)[j + 1] = f

\* how many notes the phrases before phrase number n (0-based) have
C18_NotesBefore(n) ==
    SumSeq([p \in 1..n |->
               SumSeq([k \in 1..Len(gm_phrases[p]) |->
                          gm_phrases[p][k].syllables])])

\* C18: one syllable moves the note index by at most one scale step, the
\* range correction included; the phrase-end resolution is one further step
\* down at most; so consecutive notes are at most one step apart, except
\* that a phrase's final note may be two steps from the note before it.
C18_SmallSteps ==
    gm_pc # "idle"
    => /\ gm_last = "syllable"
             => Abs(current_note_index - gm_prev_index) <= 1
       /\ gm_last = "resolve"
             => /\ current_note_index <= gm_prev_index
                /\ gm_prev_index - current_note_index <= 1
       /\ \A k \in 2..Len(C17_Emitted) :
             LET step == Abs(C18_IndexOf(C17_Emitted[k])
                             - C18_IndexOf(C17_Emitted[k - 1]))
                 final == \E p \in 1..phrase_idx : C18_NotesBefore(p) = k
             IN step <= (IF final THEN 2 ELSE 1)

\* a returned melody whose last note is two steps below the one before it
C18_Witness ==
    /\ gm_pc = "done"
    /\ Len(melody) >= 2
    /\ C18_IndexOf(melody[Len(melody) - 1])
          - C18_IndexOf(melody[Len(melody)]) = 2

C20_EmphasisMoves ==
    (gm_pc = "loop" /\ gm_last = "syllable")
    => LET phrase == gm_phrases[phrase_idx + 1]
           emphases ==
               Flatten([k \in 1..Len(phrase) |->
                           [j \in 1..phrase[k].syllables |->
                               phrase[k].emphasis]])
           position == syllable_count - 1
           emphasis == emphases[syllable_count]
           top == Len(base_notes(gm_style)) - 1
           down == IF gm_prev_index > 0 THEN gm_prev_index - 1 ELSE 0
           up == IF gm_prev_index < top THEN gm_prev_index + 1 ELSE top
       IN /\ emphasis = "low" => current_note_index = down
          /\ (emphasis = "high" /\ position < Len(emphases) \div 2)
                => current_note_index = up
          /\ (emphasis = "high" /\ position >= Len(emphases) \div 2)
                => current_note_index = down
          /\ (emphasis = "high" /\ Len(emphases) = 1)
                => current_note_index <= gm_prev_index

\* a high-emphasis syllable at the midpoint, before 70% of the phrase,
\* lowered the index
C20_Witness ==
    /\ gm_pc = "loop"
    /\ gm_last = "syllable"
    /\ gm_phrases[phrase_idx + 1][1].emphasis = "high"
    /\ gm_phrases[phrase_idx + 1][1].syllables = 5
    /\ syllable_count = 3
    /\ current_note_index = gm_prev_index - 1

\* the emphasis of the syllable generate_melody has just processed
C21_LastEmphasis ==
    LET phrase == gm_phrases[phrase_idx + 1]
    IN Flatten([k \in 1..Len(phrase) |->
                   [j \in 1..phrase[k].syllables |->
                       phrase[k].emphasis]])[syllable_count]

\* the middle index of the style's scale, len(scale) // 2
C21_Middle == Len(base_notes(gm_style)) \div 2

\* C21 as stated: a medium-emphasis syllable moves the note index one step
\* toward the middle index whenever it differs from it, and leaves it
\* unchanged only at the middle.
C21_MediumAlwaysDrifts ==
    (gm_pc = "loop" /\ gm_last = "syllable" /\ C21_LastEmphasis = "medium")
    => /\ gm_prev_index < C21_Middle
             => current_note_index = gm_prev_index + 1
       /\ gm_prev_index > C21_Middle
             => current_note_index = gm_prev_index - 1
       /\ gm_prev_index = C21_Middle
             => current_note_index = gm_prev_index

\* C21, amended: a medium-emphasis syllable moves the note index one step
\* toward the middle index when it is more than two steps away from it, and
\* leaves it unchanged otherwise.
C21_MediumDrift ==
    (gm_pc = "loop" /\ gm_last = "syllable" /\ C21_LastEmphasis = "medium")
    => /\ gm_prev_index < C21_Middle - 2
             => current_note_index = gm_prev_index + 1
       /\ gm_prev_index > C21_Middle + 2
             => current_note_index = gm_prev_index - 1
       /\ (gm_prev_index >= C21_Middle - 2 /\ gm_prev_index <= C21_Middle + 2)
             => current_note_index = gm_prev_index

\* a medium syllable met the index three steps below the middle and
\* raised it by one
C21_Witness ==
    /\ gm_pc = "loop"
    /\ gm_last = "syllable"
    /\ C21_LastEmphasis = "medium"
    /\ gm_prev_index = C21_Middle - 3
    /\ current_note_index = gm_prev_index + 1

\* the strictly positive frequencies of the melody given to
\* generate_chord_progression
C22_Positive ==
    {cp_melody[k] : k \in {j \in 1..Len(cp_melody) : cp_melody[j] > 0}}

\* the semitones of a numeral's degree above the key's root
C22_Degree(roman) ==
    IF roman = <<"I">> THEN 0
    ELSE IF roman = <<"i", "i">> THEN 2
    ELSE IF roman = <<"I", "V">> THEN 5
    ELSE IF roman = <<"V">> THEN 7
    ELSE 9

\* C22: generate_chord_progression takes as key root the lowest strictly
\* positive frequency of the melody, or 261.63 Hz when there is none, and
\* builds the chord of each numeral at the semitone offsets (d, d + t, d + 7)
\* above that root, d the major-scale interval of the numeral's degree and
\* t = 3 for a lower-case numeral, 4 otherwise.
C22_RootAndTriads ==
    cp_pc \in {"loop", "done"}
    => /\ C22_Positive = {} => root_freq = 26163
       /\ C22_Positive # {}
             => /\ root_freq \in C22_Positive
                /\ \A f \in C22_Positive : root_freq <= f
       /\ \A k \in 1..Len(chords) :
             LET roman == progression[k]
                 d == C22_Degree(roman)
                 t == IF roman \in {<<"i", "i">>, <<"v", "i">>} THEN 3 ELSE 4
             IN /\ \A j \in 1..3 : chords[k][j].root = root_freq
                /\ chords[k][1].semitones = d
                /\ chords[k][2].semitones = d + t
                /\ chords[k][3].semitones = d + 7

\* a jazz progression (ii first) returned for a melody whose lowest entry
\* is not positive and whose lowest positive one is not the default
C22_Witness ==
    /\ cp_pc = "done"
    /\ cp_style = "jazz"
    /\ cp_melody = <<-26163, 19600>>
    /\ root_freq = 19600
    /\ chords[1][2].semitones = 5

\* the tempo create_drum_track is to use for the style, in BPM
C23_Tempo == IF ac_style = "ballad" THEN 70
             ELSE IF ac_style = "pop" THEN 120 ELSE 100

\* the hits placed for beat b, as their kinds
C23_Kinds(b) ==
    {ac_hits[k].kind : k \in {j \in 1..Len(ac_hits) : ac_hits[j].beat = b}}

\* C23: create_drum_track, in either implementation, uses the tempo of the
\* style; of the beats 0..int(duration * bpm / 60) - 1 it gives a kick
\* exactly to those divisible by 4 and a hi-hat exactly to the odd ones,
\* nothing to those congruent to 2 mod 4; each hit starts at its beat and
\* stops at the buffer end at the latest; the track keeps its
\* int(duration * rate) samples.
C23_DrumPattern ==
    (/\ ac_entry \in {"create_drum_track", "generate_musical_accompaniment"}
     /\ ac_pc \in {"drums", "mix", "done", "raised"})
    => LET ns == (ac_duration * AccompanimentRate) \div 2
           beats == (ac_duration * C23_Tempo) \div 120
           spacing == (60 * AccompanimentRate) \div C23_Tempo
       IN /\ ac_pc # "raised"
          /\ ac_pc \in {"mix", "done"} => ac_beat = beats
          /\ ac_beat <= beats
          /\ \A b \in 0..(ac_beat - 1) :
                C23_Kinds(b) = (IF b % 4 = 0 THEN {"kick"}
                                ELSE IF b % 2 = 1 THEN {"hihat"}
                                ELSE {})
          /\ \A k \in 1..Len(ac_hits) :
                /\ ac_hits[k].beat < ac_beat
                /\ ac_hits[k].start = ac_hits[k].beat * spacing
                /\ ac_hits[k].start < ac_hits[k].stop
                /\ ac_hits[k].stop <= ns
          /\ Len(drum_track) = ns
          /\ \A i \in 1..Len(drum_track) :
                drum_track[i]
                   = {<<ac_hits[k].kind, ac_hits[k].beat>> :
                         k \in {j \in 1..Len(ac_hits) :
                                   /\ ac_hits[j].start <= i - 1
                                   /\ i - 1 < ac_hits[j].stop}}

\* C24: create_hihat_sound, in either implementation, multiplies the
\* differenced noise by an envelope of as many samples, returns
\* int(0.05 * sample_rate) samples and does not raise; a drum track with an
\* odd beat is rendered.
C24_HihatLength ==
    /\ ac_hihat.called
          => /\ ac_hihat.envelope = ac_hihat.noise
             /\ ac_hihat.noise = AccompanimentRate \div 20
             /\ ~ac_hihat.raised
    /\ ac_pc # "raised"

\* C25: create_chord_track, create_bass_track and create_drum_track each
\* return int(duration * sample_rate) samples, so that
\* generate_musical_accompaniment drops no track: the accompaniment has
\* that length and is chords * 0.3 + bass * 0.4 + drums * 0.2.
C25_NoTrackDropped ==
    ac_entry = "generate_musical_accompaniment"
    => LET ns == (ac_duration * AccompanimentRate) \div 2
       IN /\ ac_pc # "raised"
          /\ ac_pc \in {"bass", "drums_call", "drums", "mix", "done"}
                => Len(chord_track) = ns
          /\ ac_pc \in {"drums_call", "drums", "mix", "done"}
                => Len(bass_track) = ns
          /\ ac_pc \in {"drums", "mix", "done"} => Len(drum_track) = ns
          /\ ac_pc = "done"
                => ac_accompaniment = [length |-> ns, chords |-> 30,
                                       bass |-> 40, drums |-> 20]

\* an accompaniment returned with a sample count that is not a multiple of
\* the four chords, and with kicks and hi-hats in its drum track
C25_Witness ==
    /\ ac_entry = "generate_musical_accompaniment"
    /\ ac_pc = "done"
    /\ ac_accompaniment.length % 4 # 0
    /\ ac_accompaniment.chords = 30
    /\ chord_track[1] = 1
    /\ chord_track[Len(chord_track)] = 0
    /\ Len(ac_hits) >= 4

\* the returned list has syllable_count notes and repeats the melody
\* cyclically: result[k] = melody[k mod len(melody)]
C30_Cyclic ==
    am_pc = "done"
    => /\ Len(am_result) = am_syllable_count
       /\ Len(am_melody_notes) > 0
             => \A k \in 0..(am_syllable_count - 1) :
                   am_result[k + 1]
                      = am_melody_notes[(k % Len(am_melody_notes)) + 1]

C26_Mag(x) == IF x < 0 THEN -x ELSE x

\* C26: apply_light_compression returns every sample with |x| <= 0.6 as it
\* is and every sample with |x| > 0.6 as sign(x) * (0.6 + (|x| - 0.6) / 3),
\* to the resolution of the samples; it never raises a magnitude, keeps
\* each sign, the order of the magnitudes and the length, and leaves the
\* buffer it was given as it was.
C26_Compression ==
    (mx_pc = "normalize" /\ "compress" \notin mx_failed)
    => LET x == C8_WeightedMix
           y == mixed
       IN /\ Len(y) = Len(x)
          /\ compress_input = x
          /\ \A k \in 1..Len(x) :
                /\ C26_Mag(x[k]) <= 60000 => y[k] = x[k]
                /\ C26_Mag(x[k]) > 60000
                      => /\ 3 * (C26_Mag(y[k]) - 60000)
                               <= C26_Mag(x[k]) - 60000
                         /\ C26_Mag(x[k]) - 60000
                               < 3 * (C26_Mag(y[k]) - 60000) + 3
                /\ C26_Mag(y[k]) <= C26_Mag(x[k])
                /\ (x[k] > 0) = (y[k] > 0)
                /\ (x[k] < 0) = (y[k] < 0)
          /\ \A j, k \in 1..Len(x) :
                C26_Mag(x[j]) <= C26_Mag(x[k])
                   => C26_Mag(y[j]) <= C26_Mag(y[k])

\* a mix compressed with one sample above the threshold, lowered, and one
\* below it that is not silent
C26_Witness ==
    /\ mx_pc = "normalize"
    /\ "compress" \notin mx_failed
    /\ \E j, k \in 1..Len(mixed) :
          /\ C8_WeightedMix[j] < -60000
          /\ mixed[j] > C8_WeightedMix[j]
          /\ C8_WeightedMix[k] > 0
          /\ C8_WeightedMix[k] <= 60000

\* C27: in mix_vocal_and_accompaniment a sub-step that raises does not end
\* the mix: after a failed enhancement the trimmed vocal is mixed as it is,
\* after a failed filtering the trimmed accompaniment, after a failed
\* compression the uncompressed mix is kept; the later steps run and the
\* mix returned is the weighted mix brought to the 0.9 peak.
C27_SubStepFallbacks ==
    /\ mx_failed # {}
          => mx_pc \in {"filter", "sum", "compress", "normalize", "done"}
    /\ "enhance" \in mx_failed => enhanced_vocals = vocal_trimmed
    /\ "filter" \in mx_failed => filtered_accompaniment = accompaniment_trimmed
    /\ ("compress" \in mx_failed /\ mx_pc = "normalize")
          => mixed = C8_WeightedMix
    /\ (mx_failed # {} /\ mx_pc = "done")
          => /\ Len(mixed) = Len(vocal_trimmed)
             /\ ~AllZero(C8_WeightedMix)
                   => /\ mx_normalized
                      /\ MaxOf([k \in 1..Len(mixed) |-> C26_Mag(mixed[k])])
                            = 900
             /\ "compress" \in mx_failed
                   => \A k \in 1..Len(mixed) :
                         \/ AllZero(C8_WeightedMix) /\ mixed[k] = 0
                         \/ /\ ~AllZero(C8_WeightedMix)
                            /\ (mixed[k] > 0) = (C8_WeightedMix[k] > 0)
                            /\ (mixed[k] < 0) = (C8_WeightedMix[k] < 0)

\* a mix returned after all three sub-steps raised, normalized
C27_Witness ==
    /\ mx_pc = "done"
    /\ mx_failed = {"enhance", "filter", "compress"}
    /\ mx_normalized
    /\ ~AllZero(vocal_trimmed)
    /\ ~AllZero(accompaniment_trimmed)

\* C28, first part: pitch_shift_segment hands back a buffer exactly as long
\* as the segment it was given, whatever the length and the target
C28_SameLength ==
    last_shift.called => Len(last_shift.out) = Len(last_shift.segment)

\* C28, second part: a resampled buffer shorter than the segment is followed
\* by zeros up to the segment's length, a longer one is cut at that length
C28_PadOrCrop ==
    (last_shift.called /\ last_shift.resampled /\ ~last_shift.raised) =>
        LET n == last_shift.length
            new_length == last_shift.new_length
            shifted == Resample(last_shift.segment, new_length)
            fade_length == IF new_length < n
                           THEN Min(n - new_length, n \div 10)
                           ELSE Min(n \div 20, 50)
            kept == Min(new_length, n) - fade_length
        IN /\ \A k \in 1..kept : last_shift.out[k] = shifted[k]
           /\ \A k \in (new_length + 1)..n : last_shift.out[k] = 0

\* C28, third part: with a resampled length of 0, or when resampling raises,
\* the segment itself comes back
C28_Unshifted ==
    (last_shift.called /\ (last_shift.new_length = 0 \/ last_shift.raised)) =>
        last_shift.out = last_shift.segment

\* C28: pitch_shift_segment returns a buffer of the segment's length for
\* every length >= 0 and every target: zero-padded when the resampled
\* buffer is shorter, cropped when it is longer, and the segment itself when
\* the resampled length is 0 or resampling raises
C28_SegmentLength == C28_SameLength /\ C28_PadOrCrop /\ C28_Unshifted

\* a segment of 33 samples was shifted up and padded with silence
C28_Witness ==
    /\ vp_entry = "pitch_shift_segment"
    /\ vp_pc = "done"
    /\ last_shift.called /\ last_shift.resampled /\ ~last_shift.raised
    /\ last_shift.length = 33
    /\ last_shift.new_length < 33
    /\ Len(vp_result) = 33
    /\ vp_result[1] # 0
    /\ vp_result[33] = 0

\* C29: the note length and the crossfade length the claim names
C29_L == Len(vp_audio) \div Len(vp_melody)

C29_T == Min(C29_L \div 8, 256)

\* C29, the buffer between passes: as long as the input, and silent from
\* the start of the next segment on (so segments come in increasing order
\* and the trailing len(audio) mod len(melody) samples stay zero)
C29_Untouched ==
    (vp_pc \in {"segment", "return"} /\ Len(vp_melody) > 0) =>
        /\ Len(pitched_audio) = Len(vp_audio)
        /\ \A k \in 1..Len(pitched_audio) :
              k - 1 >= vp_i * C29_L => pitched_audio[k] = 0

\* C29, one pass: the pass for segment i changes the output only in
\* [i*L, (i+1)*L) and, scaling toward zero, in [i*L - T, i*L)
C29_Pass ==
    (vp_pc = "segment" /\ vp_i' = vp_i + 1) =>
        /\ Len(pitched_audio') = Len(pitched_audio)
        /\ \A k \in 1..Len(pitched_audio) :
              pitched_audio'[k] # pitched_audio[k] =>
                 \/ /\ k - 1 >= vp_i * C29_L
                    /\ k - 1 < (vp_i + 1) * C29_L
                 \/ /\ k - 1 >= vp_i * C29_L - C29_T
                    /\ k - 1 < vp_i * C29_L
                    /\ Abs(pitched_audio'[k]) < Abs(pitched_audio[k])

\* C29, the result: pitch_shift_to_melody returns a buffer of the input's
\* length
C29_ResultLength ==
    (vp_entry = "pitch_shift_to_melody" /\ vp_pc = "done") =>
        Len(vp_result) = Len(vp_audio)

\* C29: pitch_shift_to_melody returns a buffer of the input's length and
\* takes the segments in increasing order; with L = len(audio) // len(melody)
\* and T = min(L // 8, 256) the pass for segment i writes only [i*L, (i+1)*L)
\* and scales only [i*L - T, i*L); the regions of different segments are
\* disjoint and the trailing len(audio) mod len(melody) samples stay zero
C29_Frame ==
    /\ [](C29_Untouched /\ C29_ResultLength)
    /\ [][C29_Pass]_vars

\* two notes over 33 samples, both shifted down and cropped: the second
\* pass faded the last sample of the first segment to silence, and the one
\* sample past the two segments was never written
C29_Witness ==
    /\ vp_entry = "pitch_shift_to_melody"
    /\ vp_pc = "done"
    /\ Len(vp_melody) = 2
    /\ Len(vp_result) = 33
    /\ vp_result[15] # 0
    /\ vp_result[16] = 0
    /\ vp_result[18] # 0
    /\ vp_result[32] # 0
    /\ vp_result[33] = 0

====
